---- MODULE Spec2Model ----
(***************************************************************************)
(* A model of the ts_dimm Astelco/OpenTPL client (OpenTplConnection and    *)
(* the AstelcoDIMM controller, whose connection code is the same text) and *)
(* of its mock server (MockAstelcoDIMM).                                   *)
(*                                                                         *)
(* Tasks are asyncio coroutines: a step of the model is the code a task    *)
(* runs between two suspension points.  StreamWriter.drain() does not      *)
(* suspend on a healthy transport with a small buffer, so a successful     *)
(* write_cmdstr is part of the step that calls it.                         *)
(***************************************************************************)
EXTENDS Integers, Sequences, FiniteSets, TLC

\* ------------------------------------------------------------- bounds
MaxCmds == 2
MaxLines == 2
MaxConnects == 2
MaxCalls == 2
MaxFaults == 2
MaxPolls == 1
MaxRaw == 3
MaxNoWait == 101
MaxRepeat == 2
MaxCallbacks == 3
MaxSeeing == 1

\* ------------------------------------------------------------- state
VARIABLES
  reader,            \* self.reader is not None
  writer,            \* self.writer is not None
  transport,         \* the TCP stream as the client's socket sees it
  inbox,             \* lines the peer wrote that the client has not read
  sent,              \* the lines the client handed to writer.write, in order,
                     \* kept while the peer is one that reads them (wire)
  wire,              \* whether the peer of this behaviour reads what is sent
  klass,             \* the class of the client: OpenTplConnection or AstelcoDIMM
  read_level,        \* self.read_level
  write_level,       \* self.write_level
  reply,             \* connect(): the line it read as the reply to AUTH
  ws_remote,         \* self.ws_remote is not None (AstelcoDIMM)
  csc,               \* the DIMMCSC that owns the controller, and its tasks
  overlap,           \* two connect() calls at once: callers, streams, reply loops
  weather,           \* self.is_raining, self.is_snowing; the callbacks so far
  status_loop_task,  \* self.status_loop_task (AstelcoDIMM)
  poll,              \* the status loop: its command (0: none), its polls so far
  stop,              \* the stop() call: made, its SET command, what it raised
  mock,              \* the MockAstelcoDIMM server, when it is the peer
  boot,              \* start(): the start-up commands sent, the one awaited
  index_gen,         \* AstelcoCommand.index_gen: the last id it yielded
  cmd,               \* every AstelcoCommand created, in creation order
  running_commands,  \* self.running_commands: (id, command) in insertion order
  reply_loop_task,   \* self.reply_loop_task
  waiter,            \* per command: the task that called run_command
  life,              \* the task calling connect / disconnect / stop
  status,            \* self.status["status"]
  log,               \* what the reply handlers logged at warning level or above
  nconnect,          \* connect() calls so far
  nlines,            \* lines the peer wrote so far
  lost,              \* commands registered and unresolved when the peer closed
  served,            \* how many of the lines in sent the peer has read
  dimm,              \* the instrument: its DIMM.TIMESTAMP and its failing variables
  meas,              \* the task running get_measurement()
  calls              \* get_measurement() calls that returned or raised, in order

vars == <<reader, writer, transport, inbox, sent, wire, klass, ws_remote, csc, overlap, weather, read_level, write_level, reply,
          status_loop_task, poll, stop, mock, boot, index_gen, cmd,
          running_commands, reply_loop_task, waiter, life, status, log,
          nconnect, nlines, lost, served, dimm, meas, calls>>

\* self.read_level = None: no level was read (a level read is \d+, never
\* negative).
None == -1

\* No reply to AUTH was read.
NoReply == [kind |-> "none"]

\* What the connection's own steps leave alone.
other == <<wire, klass, ws_remote, csc, overlap, weather, read_level, write_level, reply, poll, stop, mock, boot, dimm, meas, calls>>

\* ------------------------------------------------------------- values
\* A value on the wire: its whitespace-separated words, and whether the text
\* starts with a double quote.
Val(q, w) == [q |-> q, w |-> w]
NoVal == Val(FALSE, <<>>)

\* A reply line, already split by the pattern that matches it ("OTHER": none).
\* For a COMMAND line `name` is the state.
Line(i, k, n, v) == [id |-> i, kind |-> k, name |-> n, val |-> v]

\* A line the client writes: "{id} {name} {arg}", or an unnumbered command.
ClientLine(i, verb, arg) == [id |-> i, verb |-> verb, arg |-> arg]

BadDataReplies ==
  {"BUSY", "DENIED", "DIMENSION", "FAILED", "INVALID", "LOCKEDBY", "TYPE", "UNKNOWN"}

connected == reader /\ writer

\* A command object is named by its place in cmd (its identity); ix = 0: None.
Cmds == 1..Len(cmd)

SeqToSet(s) == {s[i] : i \in 1..Len(s)}

\* An entry of the running_commands dict.
Reg(id, ix) == [id |-> id, ix |-> ix]

\* running_commands[id] = command: a key already present keeps its place.
Register(rc, id, ix) ==
  IF \E i \in 1..Len(rc) : rc[i].id = id
  THEN [i \in 1..Len(rc) |-> IF rc[i].id = id THEN Reg(id, ix) ELSE rc[i]]
  ELSE Append(rc, Reg(id, ix))

\* running_commands.pop(cmdid)
RemoveId_keep(rc, id) == rc

RemoveId(rc, id) == SelectSeq(rc, LAMBDA e : e.id # id)

Registered(rc) == {rc[i].ix : i \in 1..Len(rc)}

\* asyncio.Future.set_result / set_exception: InvalidStateError when done.
FutureSet(fut, outcome) ==
  IF fut = "pending" THEN [fut |-> outcome, err |-> FALSE]
  ELSE [fut |-> fut, err |-> TRUE]

\* done_task holds a cancellation: set by the reply loop's teardown, or the
\* future itself was cancelled with the task awaiting it.
CancellationOutcome == {"CancelledError", "cancelled"}

TaskDone(t) == t \in {"none", "finished", "cancelled", "failed"}

\* next(index_gen) given the last value yielded
index_generator_same(last) == 1

index_generator(last) == last + 1

NewCommand(id, name, arg) ==
  [id |-> id, name |-> name, arg |-> arg, done_task |-> "pending",
   replies |-> <<>>, data |-> <<>>]

\* command.data[name] = entry
SetData(c, name, entry) ==
  [c EXCEPT !.data =
     [n \in (DOMAIN c.data) \cup {name} |-> IF n = name THEN entry ELSE c.data[n]]]

Entry(isok, isnone, v) == [isok |-> isok, none |-> isnone, value |-> v]

\* ------------------------------------------------------------- reply handlers
\* Each returns the command after the handler and what the handler did besides:
\* exc (it raised) and warn (it logged a warning).
Handled(c, exc, warn) == [c |-> c, exc |-> exc, warn |-> warn]

\* Any COMMAND line ends the command: OK as COMPLETE does, ERROR as FAILED.
handle_command_any(c, state) ==
  IF c.done_task # "pending" THEN Handled(c, FALSE, TRUE)
  ELSE Handled([c EXCEPT !.done_task =
                  IF state \in {"OK", "COMPLETE"} THEN "result" ELSE "CommandError"],
               FALSE, FALSE)

handle_command(c, state) ==
  CASE state = "FAILED" ->
         IF c.done_task = "pending"
         THEN Handled([c EXCEPT !.done_task = FutureSet(c.done_task, "CommandError").fut],
                      FALSE, FALSE)
         ELSE Handled(c, FALSE, TRUE)
    [] state = "COMPLETE" ->
         IF c.done_task = "pending"
         THEN Handled([c EXCEPT !.done_task = FutureSet(c.done_task, "result").fut],
                      FALSE, FALSE)
         ELSE Handled(c, FALSE, TRUE)
    [] OTHER -> Handled(c, FALSE, FALSE)

handle_data_error(c, name, error) ==
  Handled(SetData(c, name, Entry(FALSE, FALSE, error)), FALSE, FALSE)

handle_data_inline(c, name, value) ==
  IF value.w = <<>>
  THEN Handled(c, TRUE, FALSE)
  ELSE IF value.w[1] \in BadDataReplies
  THEN Handled(SetData(c, name, Entry(FALSE, FALSE, value)), FALSE, TRUE)
  ELSE IF value.w[1] = "NULL"
  THEN Handled(SetData(c, name, Entry(TRUE, TRUE, NoVal)), FALSE, FALSE)
  ELSE Handled(SetData(c, name, Entry(TRUE, FALSE, Val(FALSE, value.w))), FALSE, FALSE)

handle_data_ok(c, name) ==
  Handled(SetData(c, name, Entry(TRUE, FALSE, NoVal)), FALSE, FALSE)

handle_event(c) == Handled(c, FALSE, FALSE)

Handler(c, line) ==
  CASE line.kind = "COMMAND" -> handle_command(c, line.name)
    [] line.kind = "DATA_ERROR" -> handle_data_error(c, line.name, line.val)
    [] line.kind = "DATA_INLINE" -> handle_data_inline(c, line.name, line.val)
    [] line.kind = "DATA_OK" -> handle_data_ok(c, line.name)
    [] OTHER -> handle_event(c)

\* running_commands.get(cmdid): the command the line is routed to (0: None).
Lookup_first(rc, line) ==
  IF line.kind # "OTHER" /\ rc # <<>> THEN rc[1].ix ELSE 0

Lookup(rc, line) ==
  IF line.kind # "OTHER" /\ \E i \in 1..Len(rc) : rc[i].id = line.id
  THEN (CHOOSE e \in SeqToSet(rc) : e.id = line.id).ix
  ELSE 0

\* The handler runs first and the line is recorded only for a command that
\* is still pending afterwards.
Dispatch_unrecorded(cmds, rc, line) ==
  LET ix == Lookup(rc, line) IN
  IF ix = 0
  THEN [cmd |-> cmds, rc |-> rc, log |-> {}]
  ELSE LET h == Handler(cmds[ix], line)
       IN [cmd |-> [cmds EXCEPT ![ix] =
                      IF h.c.done_task = "pending"
                      THEN [h.c EXCEPT !.replies = Append(@, line)] ELSE h.c],
           rc |-> IF h.c.done_task # "pending" THEN RemoveId(rc, line.id) ELSE rc,
           log |-> {}]

\* The body of reply_loop's while loop for one line that was read.
Dispatch(cmds, rc, line) ==
  LET ix == Lookup(rc, line) IN
  IF ix = 0
  THEN [cmd |-> cmds, rc |-> rc, log |-> {}]
  ELSE LET c0 == [cmds[ix] EXCEPT !.replies = Append(@, line)]
           h == Handler(c0, line)
       IN [cmd |-> [cmds EXCEPT ![ix] = h.c],
           rc |-> IF h.c.done_task # "pending" THEN RemoveId(rc, line.id) ELSE rc,
           log |-> (IF h.exc THEN {"reply handler failed"} ELSE {})
                   \cup (IF h.warn /\ line.kind = "COMMAND"
                         THEN {"already finished"} ELSE {})]

\* reply_loop's finally block: pop every command, cancel the unresolved ones.
\* raised: an exception left the block.
RECURSIVE Terminate_noguard(_, _)
Terminate_noguard(cmds, rc) ==
  IF rc = <<>> THEN [cmd |-> cmds, rc |-> rc, raised |-> FALSE]
  ELSE LET ix == rc[Len(rc)].ix
           rest == SubSeq(rc, 1, Len(rc) - 1)
           r == FutureSet(cmds[ix].done_task, "CancelledError")
       IN IF r.err
          THEN [cmd |-> cmds, rc |-> rest, raised |-> TRUE]
          ELSE Terminate_noguard([cmds EXCEPT ![ix].done_task = r.fut], rest)

RECURSIVE Terminate(_, _)
Terminate(cmds, rc) ==
  IF rc = <<>> THEN [cmd |-> cmds, rc |-> rc, raised |-> FALSE]
  ELSE LET ix == rc[Len(rc)].ix
           rest == SubSeq(rc, 1, Len(rc) - 1)
       IN IF cmds[ix].done_task = "pending"
          THEN Terminate([cmds EXCEPT ![ix].done_task =
                            FutureSet(cmds[ix].done_task, "CancelledError").fut], rest)
          ELSE Terminate(cmds, rest)


\* ------------------------------------------------------------- tasks
\* Task.cancel() on the reply loop task.  Suspended in read_reply or in
\* close_stream_writer, the task takes CancelledError at its next step.  In the
\* connection guard's disconnect(), awaiting itself, it is already cancelling
\* and the CancelledError is absorbed there.
CancelLoop_ignored(t) == t

CancelLoop(t) ==
  IF t \in {"reading", "closing"} THEN "cancelling" ELSE t

\* Future.cancel() on status_loop_task, the gather of status_loop() and
\* ameba_loop().  The two loops have the same control flow (poll, read the
\* values, sleep; any Exception sets the status ERROR and ends the loop); the
\* model follows status_loop().  In the connection guard's disconnect() the
\* loop absorbs the cancellation like the reply loop does.
CancelStatus(t) ==
  IF t \in {"sleeping", "polling"} THEN "cancelling" ELSE t

\* Cancelling the status loop cancels the done_task it awaits.
CancelPolled(cmds) ==
  IF status_loop_task = "polling" /\ cmds[poll.ix].done_task = "pending"
  THEN [cmds EXCEPT ![poll.ix].done_task = "cancelled"]
  ELSE cmds

\* Both tasks that disconnect() awaits are over.
LoopsDone == TaskDone(reply_loop_task) /\ TaskDone(status_loop_task)

DisconnectLine == ClientLine(0, "DISCONNECT", <<>>)

\* writer.write(cmdbytes)
Write(s, line) == IF wire THEN Append(s, line) ELSE s

\* disconnect() after its awaits: write DISCONNECT if connected, forget the
\* streams, close the writer.  On a reset connection the write raises, the
\* guard of write_cmdstr calls disconnect() again, which writes again, and so on
\* until the interpreter refuses to recurse; each level logs the failure and
\* goes on, so the outermost disconnect() ends like one whose write succeeded.
Release(sent0, log0) ==
  /\ sent' = IF connected THEN Write(sent0, DisconnectLine) ELSE sent0
  /\ log' = IF connected /\ transport = "reset"
            THEN log0 \cup {"Error trying to disconnect"}
            ELSE log0
  /\ reader' = FALSE
  /\ writer' = FALSE
  /\ transport' = "none"
  /\ inbox' = <<>>

\* ------------------------------------------------------------- run_command
\* run_command up to its first suspension: create, register, write.  When the
\* write raises, the connection guard sets the status and calls disconnect(),
\* which cancels the reply loop and awaits it.  `who` is the code that runs up
\* to the call without suspending: stop() sets the status first, connect()
\* ends ("start": the status loop is created, the status is INITIALIZED) and
\* start() goes on, the status loop polls, or any other caller.
RunCommandStep(name, arg, wait_done, who) ==
  /\ connected
  /\ LET id == index_generator(index_gen)
         ix == Len(cmd) + 1
         slt == IF who = "start" THEN "sleeping" ELSE status_loop_task
     IN /\ index_gen' = id
        /\ running_commands' = Register(running_commands, id, ix)
        /\ IF transport # "reset"
           THEN /\ cmd' = Append(cmd, NewCommand(id, name, arg))
                /\ sent' = Write(sent, ClientLine(id, name, arg))
                /\ waiter' = Append(waiter, IF wait_done THEN "waiting" ELSE "nowait")
                /\ status_loop_task' = IF who = "status_loop" THEN "polling" ELSE slt
                /\ status' = IF who \in {"stop", "start"} THEN "INITIALIZED"
                             ELSE status
                /\ UNCHANGED <<reader, writer, transport, inbox, reply_loop_task,
                               log>>
           ELSE /\ cmd' = Append(CancelPolled(cmd), NewCommand(id, name, arg))
                /\ status' = "ERROR"
                /\ reply_loop_task' = CancelLoop(reply_loop_task)
                /\ LET own == who = "status_loop"
                       done == /\ TaskDone(reply_loop_task)
                               /\ own \/ TaskDone(slt)
                   IN /\ status_loop_task' =
                           IF ~own THEN CancelStatus(slt)
                           ELSE IF done THEN "finished" ELSE "guard"
                      /\ IF done
                         THEN /\ Release(Write(sent, ClientLine(id, name, arg)), log)
                              /\ waiter' = Append(waiter, "raised")
                         ELSE /\ sent' = Write(sent, ClientLine(id, name, arg))
                              /\ waiter' = Append(waiter, "guard")
                              /\ UNCHANGED <<reader, writer, transport, inbox, log>>

RunCommand ==
  /\ Len(cmd) < MaxCmds
  /\ \E wait_done \in BOOLEAN :
       RunCommandStep("GET", <<"X">>, wait_done, "caller")
  /\ UNCHANGED <<life, nconnect, nlines, lost, served, other>>

\* The caller whose write failed resumes in disconnect() once the tasks it
\* awaits have ended, and the guard re-raises.  When the caller is the status
\* loop, its except clause ends the loop (the status is ERROR already).
CallerGuardResume ==
  /\ \E ix \in Cmds :
       /\ waiter[ix] = "guard"
       /\ TaskDone(reply_loop_task)
       /\ IF status_loop_task = "guard" /\ ix = poll.ix
          THEN status_loop_task' = "finished"
          ELSE TaskDone(status_loop_task) /\ UNCHANGED status_loop_task
       /\ waiter' = [waiter EXCEPT ![ix] = "raised"]
  /\ Release(sent, log)
  /\ UNCHANGED <<index_gen, cmd, running_commands, reply_loop_task, life,
                 status, nconnect, nlines, lost, served, other>>

\* The task awaiting done_task is cancelled by its owner: Task.cancel()
\* cancels the future the task awaits.  The command stays registered.
CallerCancel ==
  /\ \E ix \in Cmds :
       /\ waiter[ix] = "waiting"
       /\ cmd[ix].done_task = "pending"
       /\ waiter' = [waiter EXCEPT ![ix] = "cancelled"]
       /\ cmd' = [cmd EXCEPT ![ix].done_task = "cancelled"]
  /\ UNCHANGED <<reader, writer, transport, inbox, sent, index_gen,
                 running_commands, reply_loop_task, life, status, log,
                 nconnect, nlines, lost, served, status_loop_task,
                 other>>

\* ------------------------------------------------------------- reply loop
\* One pass of the while loop: a line was read and dispatched.
ReplyLoopLine ==
  /\ reply_loop_task = "reading"
  /\ connected
  /\ transport \in {"up", "eof"}
  /\ inbox # <<>>
  /\ LET d == Dispatch(cmd, running_commands, Head(inbox))
     IN /\ cmd' = d.cmd
        /\ running_commands' = d.rc
        /\ log' = log \cup d.log
  /\ inbox' = Tail(inbox)
  /\ UNCHANGED <<reader, writer, transport, sent, index_gen, reply_loop_task,
                 waiter, life, status, nconnect, nlines, lost, served, status_loop_task,
                 other>>

\* read_reply raises IncompleteReadError or ConnectionResetError: the guard
\* sets the status and calls disconnect(), which cancels and awaits the very
\* task it runs in.
ReplyLoopReadFails ==
  /\ reply_loop_task = "reading"
  /\ connected
  /\ \/ transport = "eof" /\ inbox = <<>>
     \/ transport = "reset"
  /\ reply_loop_task' = "guard"
  /\ status' = "ERROR"
  /\ status_loop_task' = CancelStatus(status_loop_task)
  /\ cmd' = CancelPolled(cmd)
  /\ UNCHANGED <<reader, writer, transport, inbox, sent, index_gen,
                 running_commands, waiter, life, log, nconnect, nlines, lost,
                 served, other>>

\* The guard's disconnect() goes on in the reply loop task, once the status
\* loop it awaits has ended.
ReplyLoopGuardDisconnect ==
  /\ reply_loop_task = "guard"
  /\ TaskDone(status_loop_task)
  /\ reply_loop_task' = "closing"
  /\ Release(sent, log)
  /\ UNCHANGED <<index_gen, cmd, running_commands, waiter, life, status,
                 nconnect, nlines, lost, served, status_loop_task,
                 other>>

\* The loop ends: the except clauses and the finally block.
ReplyLoopEnd ==
  /\ reply_loop_task \in {"closing", "cancelling"}
  /\ LET t == Terminate(cmd, running_commands)
     IN /\ cmd' = t.cmd
        /\ running_commands' = t.rc
        /\ reply_loop_task' =
             IF t.raised THEN "failed"
             ELSE IF reply_loop_task = "cancelling" THEN "cancelled"
             ELSE "finished"
  /\ UNCHANGED <<reader, writer, transport, inbox, sent, index_gen, waiter,
                 life, status, log, nconnect, nlines, lost, served, status_loop_task,
                 other>>


\* ------------------------------------------------------------- disconnect
\* disconnect() called by the lifecycle task: cancel the reply loop and await
\* it; an already finished task does not suspend the caller.
DisconnectStep ==
  /\ reply_loop_task' = CancelLoop(reply_loop_task)
  /\ status_loop_task' = CancelStatus(status_loop_task)
  /\ cmd' = CancelPolled(cmd)
  /\ IF LoopsDone
     THEN /\ Release(sent, log)
          /\ life' = "idle"
     ELSE /\ life' = "disconnect_await"
          /\ UNCHANGED <<reader, writer, transport, inbox, sent, log>>

Disconnect ==
  /\ life = "idle"
  /\ DisconnectStep
  /\ UNCHANGED <<index_gen, running_commands, waiter, status, nconnect,
                 nlines, lost, served, other>>

DisconnectResume ==
  /\ life = "disconnect_await"
  /\ LoopsDone
  /\ life' = "idle"
  /\ Release(sent, log)
  /\ UNCHANGED <<index_gen, cmd, running_commands, reply_loop_task, waiter,
                 status, nconnect, nlines, lost, served, status_loop_task,
                 other>>

\* ------------------------------------------------------------- the CSC's state
\* The tasks of DIMMCSC that call the controller: the handler of the state
\* transition command in progress, telemetry_loop_task, seeing_loop_task and
\* health_monitor_loop_task.
Tasks == {"handler", "telemetry_loop", "seeing_loop", "health_monitor"}

\* A task: where it is, the command it awaits (0: none) and, when it is in
\* controller.stop(), what called stop().
Task(pc) == [pc |-> pc, ix |-> 0, call |-> ""]

\* DIMMCSC.__init__ and configure(): telemetry_loop_task is None,
\* seeing_loop_task is a done future, the health monitor runs.
\* set_automation_mode: the modes controller.set_automation_mode was awaited
\* with by the CSC, in order.
Csc(state) ==
  [summary_state |-> state,
   telemetry_loop_running |-> FALSE,
   seeing_loop_running |-> FALSE,
   controller_running |-> FALSE,
   task |-> [t \in Tasks |->
               Task(CASE t = "handler" -> "idle"
                      [] t = "telemetry_loop" -> "none"
                      [] t = "seeing_loop" -> "done"
                      [] OTHER -> "sleeping")],
   set_automation_mode |-> <<>>,
   nseeing |-> 0]

\* No CSC: the controller is used on its own.
NoCsc == [Csc("NONE") EXCEPT !.task["health_monitor"] = Task("none")]

\* The lifecycle call in progress is start(): end_enable() awaits it, or the
\* application called it.
Starting == csc.task["handler"].pc \in {"enabling", "start"}

\* The SET commands of a simulated start(): report_good_mock_weather() at the
\* end of connect() (the pressure callback sends nothing for one channel),
\* then SKY.TEMP and SKY.status.
StartupCommands ==
  << <<"WEATHER.TEMP_AMB", "0.0">>, <<"WEATHER.RH", "87.3">>,
     <<"WEATHER.WIND", "8.1">>, <<"WEATHER.WIND_DIR", "90.0">>,
     <<"WEATHER.RAIN", "0">>, <<"SKY.TEMP", "-25.0">>, <<"SKY.status", "0">> >>

WeatherCommands == 5

\* ------------------------------------------------------------- connect
AuthLine == ClientLine(0, "AUTH", <<"PLAIN">>)

\* self.config.auto_auth: false, its default, against the instrument; in
\* simulation mode the mock is created with require_authentication = not
\* auto_auth.
config_auto_auth == mock.on /\ ~mock.require_authentication

\* connect() once the previous reply loop has ended.
ConnectCheck ==
  IF connected
  THEN /\ log' = log
       /\ status' = "ERROR"
       /\ life' = "idle"
  ELSE /\ life' = "connect_open"
       /\ UNCHANGED <<log, status>>

\* connect() up to its first suspension.
ConnectCall ==
  /\ life = "idle"
  /\ nconnect < MaxConnects
  /\ nconnect' = nconnect + 1
  /\ reply_loop_task' = CancelLoop(reply_loop_task)
  /\ status_loop_task' = CancelStatus(status_loop_task)
  /\ cmd' = CancelPolled(cmd)
  /\ IF LoopsDone
     THEN ConnectCheck
     ELSE /\ life' = "connect_await"
          /\ UNCHANGED <<log, status>>
  /\ UNCHANGED <<reader, writer, transport, inbox, sent, index_gen,
                 running_commands, waiter, nlines, lost, served, wire, klass,
                 ws_remote, overlap, weather, read_level, write_level, reply, poll, stop, mock,
                 boot, dimm, meas, calls>>

\* The application calls connect().
Connect == ConnectCall /\ UNCHANGED csc

ConnectResume ==
  /\ life = "connect_await"
  /\ LoopsDone
  /\ ConnectCheck
  /\ UNCHANGED <<reader, writer, transport, inbox, sent, index_gen, cmd,
                 running_commands, reply_loop_task, waiter, nconnect, nlines,
                 lost, served, status_loop_task,
                 other>>

\* asyncio.open_connection under wait_for: the streams, or an exception.
ConnectOpen ==
  /\ life = "connect_open"
  /\ \/ /\ reader' = TRUE
        /\ writer' = TRUE
        /\ transport' = "up"
        /\ inbox' = <<>>
        /\ served' = Len(sent)
        /\ life' = "connect_welcome"
        /\ UNCHANGED status
     \/ /\ status' = "ERROR"
        /\ life' = "idle"
        /\ UNCHANGED <<reader, writer, transport, inbox, served>>
  /\ reply' = NoReply
  /\ UNCHANGED <<sent, index_gen, cmd, running_commands, reply_loop_task,
                 status_loop_task, waiter, log, nconnect, nlines, lost,
                 wire, klass, ws_remote, csc, overlap, weather, read_level, write_level, poll, stop, mock, boot,
                 dimm, meas, calls>>

\* A guarded read of the handshake fails (the peer closed, or another task
\* released the stream): the guard disconnects (the reply loop is not running)
\* and connect() ends with the status ERROR.
HandshakeReadFails ==
  /\ transport # "up"
  /\ status' = "ERROR"
  /\ life' = "idle"
  /\ Release(sent, log)
  /\ UNCHANGED <<index_gen, cmd, running_commands, reply_loop_task, waiter,
                 nconnect, nlines, lost, served, status_loop_task,
                 other>>

\* wait_for gives up on the read, or the welcome line lacks "TPL": connect()
\* raises past the guard, which sees no exception of its own.
HandshakeGivesUp ==
  /\ transport = "up"
  /\ status' = "ERROR"
  /\ life' = "idle"
  /\ UNCHANGED <<reader, writer, transport, inbox, sent, index_gen, cmd,
                 running_commands, reply_loop_task, waiter, log, nconnect,
                 nlines, lost, served, status_loop_task,
                 other>>

\* The lines a peer may write in answer to AUTH.
AuthReplies ==
  {Line(0, "AUTH", "OK", Val(FALSE, <<"1", "1">>)),
   Line(0, "AUTH", "FAILED", Val(FALSE, <<"0", "0">>)),
   Line(0, "AUTH", "OK", NoVal),
   Line(0, "OTHER", "", NoVal)}

\* int() of a run of decimal digits.
DecimalText == ("0" :> 0) @@ ("1" :> 1) @@ ("20" :> 20)

\* re.search(r"AUTH\s+(\S+)\s+(\d+)\s+(\d+)", reply)
search(r) ==
  IF /\ r.kind = "AUTH"
     /\ Len(r.val.w) >= 2
     /\ r.val.w[1] \in DOMAIN DecimalText
     /\ r.val.w[2] \in DOMAIN DecimalText
  THEN [matched |-> TRUE, AUTH |-> r.name,
        read_level |-> DecimalText[r.val.w[1]],
        write_level |-> DecimalText[r.val.w[2]]]
  ELSE [matched |-> FALSE]

Authorized_any(s) == s.matched

\* not (not s or s.group("AUTH") != "OK")
Authorized(s) == s.matched /\ s.AUTH = "OK"

\* The welcome line is read and, unless auto_auth, AUTH PLAIN is written.
ConnectWelcome ==
  /\ life = "connect_welcome"
  /\ \/ /\ transport = "up"
        /\ mock.on => inbox # <<>> /\ Head(inbox).kind = "WELCOME"
        /\ inbox' = IF mock.on THEN Tail(inbox) ELSE inbox
        /\ sent' = IF config_auto_auth THEN sent ELSE Write(sent, AuthLine)
        /\ life' = "connect_auth"
        /\ UNCHANGED <<reader, writer, transport, index_gen, cmd,
                       running_commands, reply_loop_task, waiter, status, log,
                       nconnect, nlines, lost, served, status_loop_task,
                 other>>
     \/ HandshakeGivesUp
     \/ HandshakeReadFails

\* The AUTH reply is read: OK starts the reply loop and, in AstelcoDIMM, the
\* status loop; anything else disconnects and raises.  In simulation mode
\* connect() goes on to report_good_mock_weather(), whose first statement
\* raises AttributeError when ws_remote is None: connect() ends with the
\* status ERROR before the status loop is created.  Back in start(), a
\* missing ws_remote sets the status ERROR and raises.
ConnectAuth ==
  /\ life = "connect_auth"
  /\ \/ /\ transport = "up"
        /\ \E r \in IF ~mock.on THEN AuthReplies
                    ELSE IF inbox = <<>> THEN {} ELSE {Head(inbox)} :
             /\ reply' = r
             /\ IF Authorized(search(r))
                THEN /\ read_level' = search(r).read_level
                     /\ write_level' = search(r).write_level
                     /\ reply_loop_task' = "reading"
                     /\ IF mock.on /\ ws_remote
                        THEN /\ life' = "start"
                             /\ UNCHANGED <<status, status_loop_task>>
                        ELSE IF mock.on
                        THEN /\ status' = "ERROR"
                             /\ life' = "idle"
                             /\ UNCHANGED status_loop_task
                        ELSE /\ status_loop_task' =
                                  IF klass = "AstelcoDIMM" THEN "sleeping"
                                  ELSE status_loop_task
                             /\ status' = IF Starting /\ ~ws_remote
                                          THEN "ERROR" ELSE "INITIALIZED"
                             /\ life' = IF Starting /\ ws_remote
                                        THEN "start" ELSE "idle"
                     /\ inbox' = IF mock.on THEN Tail(inbox) ELSE inbox
                     /\ UNCHANGED <<reader, writer, transport, sent, log>>
                ELSE /\ status' = "ERROR"
                     /\ life' = "idle"
                     /\ Release(sent, log)
                     /\ UNCHANGED <<read_level, write_level, reply_loop_task,
                                    status_loop_task>>
        /\ UNCHANGED <<index_gen, cmd, running_commands, waiter, nconnect,
                       nlines, lost, served, wire, klass, ws_remote, csc, overlap, weather, poll, stop, mock,
                       boot, dimm, meas, calls>>
     \/ HandshakeGivesUp
     \/ HandshakeReadFails

\* ------------------------------------------------------------- the peer
PeerValues == {Val(FALSE, <<"1">>), Val(FALSE, <<"FAILED", "15">>)}

\* The reply lines a peer may write for command id i.
PeerLines(i) ==
  {Line(i, "COMMAND", st, NoVal) : st \in {"OK", "COMPLETE", "FAILED"}}
  \cup {Line(i, "COMMAND", "ERROR", Val(FALSE, <<"UNKNOWN">>)),
        Line(i, "DATA_OK", "X", NoVal),
        Line(i, "EVENT", "X", NoVal)}
  \cup {Line(i, "DATA_INLINE", "X", v) : v \in PeerValues}
  \cup {Line(i, "DATA_ERROR", "X", Val(FALSE, <<"FAILED", "15">>)),
        Line(i, "OTHER", "", NoVal)}

PeerSend ==
  /\ transport = "up"
  /\ life \notin {"connect_welcome", "connect_auth"}
  /\ nlines < MaxLines
  /\ inbox = <<>>
  /\ \E i \in 0..index_gen : \E l \in PeerLines(i) : inbox' = Append(inbox, l)
  /\ nlines' = nlines + 1
  /\ UNCHANGED <<reader, writer, transport, sent, index_gen, cmd,
                 running_commands, reply_loop_task, waiter, life, status, log,
                 nconnect, lost, served, status_loop_task,
                 other>>

\* The terminal reply of command id is written and not yet read.
Answered(id) ==
  \E k \in 1..Len(inbox) :
    /\ inbox[k].kind = "COMMAND"
    /\ inbox[k].id = id
    /\ inbox[k].name \in {"COMPLETE", "FAILED"}

\* The peer closes the stream (end of file after the lines it wrote) or the
\* connection is reset.
PeerClose ==
  /\ transport = "up"
  /\ transport' \in {"eof", "reset"}
  /\ lost' = {ix \in Registered(running_commands) :
                /\ cmd[ix].done_task = "pending"
                /\ ~(transport' = "eof" /\ Answered(cmd[ix].id))}
  /\ UNCHANGED <<reader, writer, inbox, sent, index_gen, cmd, running_commands,
                 reply_loop_task, waiter, life, status, log, nconnect, nlines,
                 served, status_loop_task,
                 other>>

\* ------------------------------------------------------------- values read
\* A Python float: a number (in tenths) or NaN.
F(v) == [nan |-> FALSE, v |-> v]
NaN == [nan |-> TRUE, v |-> 0]

\* a == b on floats: NaN equals nothing.
FloatEq(a, b) == ~a.nan /\ ~b.nan /\ a.v = b.v

\* What a conversion or a lookup gives: the exception it raised ("" for none)
\* and the value.
Got(exc, val) == [exc |-> exc, val |-> val]

FloatText ==
  ("0.0" :> 0) @@ ("1.0" :> 10) @@ ("2.5" :> 25) @@ ("0.8" :> 8) @@ ("1.2" :> 12)
  @@ ("15000.0" :> 150000) @@ ("16000.0" :> 160000) @@ ("0.5" :> 5)
  @@ ("0.6" :> 6) @@ ("87.3" :> 873) @@ ("8.1" :> 81) @@ ("90.0" :> 900)
  @@ ("-25.0" :> -250) @@ ("-19.0" :> -190) @@ ("9.9" :> 99) @@ ("100.0" :> 1000)

IntText ==
  ("-2" :> -2) @@ ("-1" :> -1) @@ ("0" :> 0) @@ ("1" :> 1) @@ ("2" :> 2)
  @@ ("3" :> 3) @@ ("5" :> 5)

\* float(strvalue)
float(value) ==
  IF Len(value.w) = 1 /\ ~value.q /\ value.w[1] \in DOMAIN FloatText
  THEN Got("", F(FloatText[value.w[1]]))
  ELSE IF Len(value.w) = 1 /\ ~value.q /\ value.w[1] \in DOMAIN IntText
  THEN Got("", F(10 * IntText[value.w[1]]))
  ELSE Got("ValueError", NaN)

\* int(strvalue)
int(value) ==
  IF Len(value.w) = 1 /\ ~value.q /\ value.w[1] \in DOMAIN IntText
  THEN Got("", IntText[value.w[1]])
  ELSE Got("ValueError", 0)

get_value_trusting(c, name, dtype, bad_value) ==
  IF name \notin DOMAIN c.data THEN Got("KeyError", bad_value)
  ELSE LET e == c.data[name] IN
       IF e.none THEN Got("", bad_value)
       ELSE IF dtype = "float" THEN float(e.value) ELSE int(e.value)

get_value(c, name, dtype, bad_value) ==
  IF name \notin DOMAIN c.data THEN Got("KeyError", bad_value)
  ELSE LET e == c.data[name] IN
       IF ~e.isok THEN Got("", bad_value)
       ELSE IF e.none THEN Got("", bad_value)
       ELSE IF dtype = "float" THEN float(e.value) ELSE int(e.value)

get_float(c, name) == get_value(c, name, "float", NaN)

get_int(c, name, bad_value) == get_value(c, name, "int", bad_value)

\* ------------------------------------------------------------- the instrument
SeeingVars ==
  <<"DIMM.SEEING", "DIMM.AIRMASS", "DIMM.FLUX_LEFT", "DIMM.FLUX_RIGHT",
    "DIMM.STREHL_LEFT", "DIMM.STREHL_RIGHT">>

SeeingVarSet == SeqToSet(SeeingVars)

DimmVars == {"DIMM.TIMESTAMP"} \cup SeeingVarSet

FaultKinds == {"DATA_ERROR", "BAD_TOKEN", "NULL"}

\* mode: AMEBA.MODE, "0" (off) until the operator makes it automatic.
HealthyDimm == [timestamp |-> "0.0", faults |-> 0, mode |-> "0"]

\* The variables a fate makes fail.
Failing(f) == {v \in DOMAIN f : f[v] # "ok"}

\* How the variables of one GET fare: each is read ("ok") or fails in one of
\* the ways the protocol has.
Fates(vars_) ==
  IF dimm.faults >= MaxFaults
  THEN {[v \in SeqToSet(vars_) |-> "ok"]}
  ELSE {f \in [SeqToSet(vars_) -> {"ok"} \cup FaultKinds] :
          dimm.faults + Cardinality(Failing(f)) <= MaxFaults}

\* The value the instrument holds for a variable, as it writes it.
InstrumentValue(var) ==
  CASE var = "DIMM.TIMESTAMP" -> dimm.timestamp
    [] var = "AMEBA.MODE" -> dimm.mode
    [] var \in {"SCOPE.RA", "SCOPE.DEC", "SCOPE.ALT", "SCOPE.AZ"} -> "0.0"
    [] var \in {"AMEBA.STATE", "AMEBA.CONDITION"} -> "1"
    [] var \in {"AMEBA.SUN_ALT", "AMEBA.START_TIME", "AMEBA.FINISH_TIME"} -> "0.0"
    [] var = "DIMM.SEEING" -> "0.8"
    [] var = "DIMM.AIRMASS" -> "1.2"
    [] var = "DIMM.FLUX_LEFT" -> "15000.0"
    [] var = "DIMM.FLUX_RIGHT" -> "16000.0"
    [] var = "DIMM.STREHL_LEFT" -> "0.5"
    [] var = "DIMM.STREHL_RIGHT" -> "0.6"

\* The DATA line for one variable of a GET.
InstrumentData(id, var, fate) ==
  CASE fate = "DATA_ERROR" ->
         Line(id, "DATA_ERROR", var, Val(FALSE, <<"FAILED", "15">>))
    [] fate = "BAD_TOKEN" ->
         Line(id, "DATA_INLINE", var, Val(FALSE, <<"UNKNOWN">>))
    [] fate = "NULL" ->
         Line(id, "DATA_INLINE", var, Val(FALSE, <<"NULL">>))
    [] OTHER -> Line(id, "DATA_INLINE", var, Val(FALSE, <<InstrumentValue(var)>>))

\* The instrument reads the next line and answers a GET or a SET in full.
InstrumentReply ==
  /\ ~mock.on
  /\ transport = "up"
  /\ served < Len(sent)
  /\ served' = served + 1
  /\ LET l == sent[served + 1] IN
     IF l.verb = "GET"
     THEN \E f \in Fates(l.arg) :
            /\ inbox' = inbox \o <<Line(l.id, "COMMAND", "OK", NoVal)>>
                          \o [k \in 1..Len(l.arg) |->
                                InstrumentData(l.id, l.arg[k], f[l.arg[k]])]
                          \o <<Line(l.id, "COMMAND", "COMPLETE", NoVal)>>
            /\ dimm' = [dimm EXCEPT !.faults = @ + Cardinality(Failing(f))]
     ELSE IF l.verb = "SET"
     THEN /\ inbox' = inbox \o <<Line(l.id, "COMMAND", "OK", NoVal)>>
                         \o [k \in 1..Len(l.arg) |->
                               Line(l.id, "DATA_OK", l.arg[k][1], NoVal)]
                         \o <<Line(l.id, "COMMAND", "COMPLETE", NoVal)>>
          /\ UNCHANGED dimm
     ELSE UNCHANGED <<inbox, dimm>>
  /\ UNCHANGED <<reader, writer, transport, sent, index_gen, cmd,
                 running_commands, reply_loop_task, waiter, life, status, log,
                 nconnect, nlines, lost, status_loop_task, wire, klass, ws_remote, csc, overlap, weather, read_level, write_level, reply, boot, poll,
                 stop, mock, meas, calls>>

\* The instrument takes a new sample.
InstrumentSample ==
  /\ dimm.timestamp = "0.0"
  /\ dimm' = [dimm EXCEPT !.timestamp = "2.5"]
  /\ UNCHANGED <<reader, writer, transport, inbox, sent, index_gen, cmd,
                 running_commands, reply_loop_task, waiter, life, status, log,
                 nconnect, nlines, lost, served, status_loop_task, wire, klass, ws_remote, csc, overlap, weather, read_level, write_level, reply, boot,
                 poll, stop, mock, meas, calls>>

\* The instrument is put in automatic mode.
InstrumentAuto ==
  /\ ~mock.on
  /\ dimm.mode = "0"
  /\ dimm' = [dimm EXCEPT !.mode = "1"]
  /\ UNCHANGED <<reader, writer, transport, inbox, sent, index_gen, cmd,
                 running_commands, reply_loop_task, waiter, life, status, log,
                 nconnect, nlines, lost, served, status_loop_task, wire, klass, ws_remote, csc, overlap, weather, read_level, write_level, reply, boot,
                 poll, stop, mock, meas, calls>>

\* The instrument is taken out of automatic mode.
InstrumentOff ==
  /\ ~mock.on
  /\ dimm.mode = "1"
  /\ dimm' = [dimm EXCEPT !.mode = "0"]
  /\ UNCHANGED <<reader, writer, transport, inbox, sent, index_gen, cmd,
                 running_commands, reply_loop_task, waiter, life, status, log,
                 nconnect, nlines, lost, served, status_loop_task, wire, klass, ws_remote, csc, overlap, weather, read_level, write_level, reply, boot,
                 poll, stop, mock, meas, calls>>

\* ------------------------------------------------------------- get_measurement
MeasIdle == [pc |-> "idle", ix |-> 0, timestamp |-> NaN]

prev_timestamp == F(0)

\* The measurement dict built from the seeing command.
Measurement(timestamp, c) ==
  [hrNum |-> 0, timestamp |-> timestamp,
   secz |-> get_float(c, "DIMM.AIRMASS").val,
   fwhmx |-> -1, fwhmy |-> -1,
   fwhm |-> get_float(c, "DIMM.SEEING").val,
   r0 |-> -1, nimg |-> 1, dx |-> F(0), dy |-> F(0),
   fluxL |-> get_float(c, "DIMM.FLUX_LEFT").val,
   scintL |-> 0,
   strehlL |-> get_float(c, "DIMM.STREHL_LEFT").val,
   fluxR |-> get_float(c, "DIMM.FLUX_RIGHT").val,
   scintR |-> 0,
   strehlR |-> get_float(c, "DIMM.STREHL_RIGHT").val,
   flux |-> F(0)]

\* One finished call: the timestamp it read, the seeing command it sent (0:
\* none), how it ended ("None", "measurement", or the exception it raised) and
\* the measurement it returned.
Call(timestamp, seeing, returned, measurement) ==
  [timestamp |-> timestamp, seeing |-> seeing, returned |-> returned,
   measurement |-> measurement]

NoMeasurement == <<>>

Resumed_nowait(ix) == TRUE

\* `await command.done_task` in run_command is over for command ix.
Resumed(ix) ==
  \/ waiter[ix] = "raised"
  \/ waiter[ix] = "waiting" /\ cmd[ix].done_task # "pending"

\* The exceptions `await run_command(...)` raises.
Raises == CancellationOutcome \cup {"CommandError", "ConnectionResetError"}

\* How run_command ended for its caller.
AwaitOutcome(ix) ==
  IF waiter[ix] = "raised" THEN "ConnectionResetError" ELSE cmd[ix].done_task

\* get_measurement() ends without sending another command.
Finish(timestamp, seeing, returned, measurement, logged) ==
  /\ calls' = Append(calls, Call(timestamp, seeing, returned, measurement))
  /\ meas' = MeasIdle
  /\ log' = IF logged THEN log \cup {"Error in get measurement"} ELSE log
  /\ UNCHANGED <<reader, writer, transport, inbox, sent, index_gen, cmd,
                 running_commands, reply_loop_task, status_loop_task, waiter,
                 status>>

\* get_measurement() is called: GET DIMM.TIMESTAMP.
GetMeasurement ==
  /\ meas.pc = "idle"
  /\ Len(calls) < MaxCalls
  /\ IF connected
     THEN /\ RunCommandStep("GET", <<"DIMM.TIMESTAMP">>, TRUE, "caller")
          /\ meas' = [pc |-> "timestamp", ix |-> Len(cmd) + 1, timestamp |-> NaN]
          /\ UNCHANGED calls
     ELSE Finish(NaN, 0, "None", NoMeasurement, TRUE)
  /\ UNCHANGED <<life, nconnect, nlines, lost, served, wire, klass, ws_remote, csc, overlap, weather, read_level, write_level, reply, boot, poll, stop,
                 mock, dimm>>

\* The timestamp command is over: compare, then GET the seeing variables.
GetMeasurementTimestamp ==
  /\ meas.pc = "timestamp"
  /\ Resumed(meas.ix)
  /\ LET out == AwaitOutcome(meas.ix)
         g == get_float(cmd[meas.ix], "DIMM.TIMESTAMP")
     IN IF out \in CancellationOutcome THEN Finish(NaN, 0, "CancelledError", NoMeasurement, FALSE)
        ELSE IF out # "result" \/ g.exc # "" THEN Finish(NaN, 0, "None", NoMeasurement, TRUE)
        ELSE IF FloatEq(g.val, prev_timestamp) THEN Finish(g.val, 0, "None", NoMeasurement, FALSE)
        ELSE IF ~connected THEN Finish(g.val, 0, "None", NoMeasurement, TRUE)
        ELSE /\ RunCommandStep("GET", SeeingVars, TRUE, "caller")
             /\ meas' = [pc |-> "seeing", ix |-> Len(cmd) + 1, timestamp |-> g.val]
             /\ UNCHANGED calls
  /\ UNCHANGED <<life, nconnect, nlines, lost, served, wire, klass, ws_remote, csc, overlap, weather, read_level, write_level, reply, boot, poll, stop,
                 mock, dimm>>

\* The seeing command is over: build the measurement.
GetMeasurementSeeing ==
  /\ meas.pc = "seeing"
  /\ Resumed(meas.ix)
  /\ LET out == AwaitOutcome(meas.ix)
         c == cmd[meas.ix]
         raises == \E k \in 1..Len(SeeingVars) : get_float(c, SeeingVars[k]).exc # ""
     IN IF out \in CancellationOutcome
        THEN Finish(meas.timestamp, meas.ix, "CancelledError", NoMeasurement, FALSE)
        ELSE IF out # "result" \/ raises
        THEN Finish(meas.timestamp, meas.ix, "None", NoMeasurement, TRUE)
        ELSE Finish(meas.timestamp, meas.ix, "measurement",
                    Measurement(meas.timestamp, c), FALSE)
  /\ UNCHANGED <<life, nconnect, nlines, lost, served, wire, klass, ws_remote, csc, overlap, weather, read_level, write_level, reply, boot, poll, stop,
                 mock, dimm>>

\* ------------------------------------------------------------- weather
rain_value_rain_only(is_raining_, is_snowing_) ==
  IF is_raining_ THEN "1" ELSE "0"

\* set_weather_rain: RainState.PRECIPITATION (1) when it rains or snows,
\* RainState.DRY (0) otherwise, as the f-string writes the enum.
rain_value(is_raining_, is_snowing_) ==
  IF is_raining_ \/ is_snowing_ THEN "1" ELSE "0"

\* The argument of the SET that set_weather_rain sends.
WeatherRain(v) == << <<"WEATHER.RAIN", v>> >>

\* precipitation_callback(data): the two flags are set and set_weather_rain
\* runs up to the await in run_command, which raises RuntimeError when the
\* controller is not connected.  Nothing suspends between the assignments
\* and the write.
PrecipitationCallback ==
  /\ weather.callbacks < MaxCallbacks
  /\ \E raining \in BOOLEAN, snowing \in BOOLEAN :
       /\ weather' = [is_raining |-> raining, is_snowing |-> snowing,
                      callbacks |-> weather.callbacks + 1]
       /\ IF connected
          THEN RunCommandStep("SET", WeatherRain(rain_value(raining, snowing)),
                              TRUE, "caller")
          ELSE UNCHANGED <<reader, writer, transport, inbox, sent, index_gen,
                           cmd, running_commands, reply_loop_task, waiter,
                           status, log, status_loop_task>>
  /\ UNCHANGED <<life, nconnect, nlines, lost, served, wire, klass, ws_remote,
                 csc, overlap, read_level, write_level, reply, boot, poll, stop,
                 mock, dimm, meas, calls>>

\* ------------------------------------------------------------- status loop
\* The status loop's last command and the number sent; the ameba loop's
\* position ("none" where the two loops are followed as one), its last
\* command and the number sent.
NoPoll == [ix |-> 0, n |-> 0, ameba |-> "none", aix |-> 0, an |-> 0]

StatusVars == <<"AMEBA.MODE", "SCOPE.RA", "SCOPE.DEC", "SCOPE.ALT", "SCOPE.AZ">>

\* One pass of status_loop() up to its await: the loop ends when the
\* connection is gone, or it sends its GET.
StatusLoopSend ==
  /\ IF connected
     THEN /\ RunCommandStep("GET", StatusVars, TRUE, "status_loop")
          /\ poll' = [poll EXCEPT !.ix = Len(cmd) + 1, !.n = poll.n + 1]
     ELSE /\ status_loop_task' = "finished"
          /\ UNCHANGED <<reader, writer, transport, inbox, sent, index_gen, cmd,
                         running_commands, reply_loop_task, waiter, status, log,
                         poll>>
  /\ UNCHANGED <<life, nconnect, nlines, lost, served, wire, klass, ws_remote, csc, overlap, weather, read_level, write_level, reply, boot, stop, mock,
                 dimm, meas, calls>>

StatusLoopPoll ==
  /\ status_loop_task = "sleeping"
  /\ poll.n < MaxPolls
  /\ StatusLoopSend

\* The same pass of status_loop() where the loop is followed for longer.
StatusLoopRepeat ==
  /\ status_loop_task = "sleeping"
  /\ poll.n < MaxRepeat
  /\ StatusLoopSend

\* get_value(name, dtype=str, bad_value=""): the text of the value.
get_str(c, name) ==
  IF name \notin DOMAIN c.data THEN Got("KeyError", <<>>)
  ELSE LET e == c.data[name] IN
       IF ~e.isok \/ e.none THEN Got("", <<>>) ELSE Got("", e.value.w)

PollRaises_never(c, out) == FALSE

\* The try block of status_loop() raises: run_command did, or get_value or
\* get_float did on the command it returned.
PollRaises(c, out) ==
  \/ out # "result"
  \/ get_str(c, "AMEBA.MODE").exc # ""
  \/ \E k \in 2..Len(StatusVars) : get_float(c, StatusVars[k]).exc # ""

\* The GET is over: the values are read and the loop sleeps; an Exception
\* ends the loop with the status ERROR.
StatusLoopRead ==
  /\ status_loop_task = "polling"
  /\ Resumed(poll.ix)
  /\ LET c == cmd[poll.ix]
         mode == get_str(c, "AMEBA.MODE")
         raises == PollRaises(c, AwaitOutcome(poll.ix))
     IN IF raises
        THEN /\ status' = "ERROR"
             /\ status_loop_task' = "finished"
        ELSE /\ status' = IF mode.val # <<"0">> THEN "RUNNING" ELSE status
             /\ status_loop_task' = "sleeping"
  /\ UNCHANGED <<reader, writer, transport, inbox, sent, index_gen, cmd,
                 running_commands, reply_loop_task, waiter, life, log, nconnect,
                 nlines, lost, served, other>>

\* ------------------------------------------------------------- ameba loop
\* ameba_loop(), where it is followed apart from status_loop(): both run in
\* the gather that connect() creates.
AmebaVars ==
  <<"AMEBA.MODE", "AMEBA.STATE", "AMEBA.SUN_ALT", "AMEBA.CONDITION",
    "AMEBA.START_TIME", "AMEBA.FINISH_TIME">>

AmebaIntVars == {"AMEBA.MODE", "AMEBA.STATE", "AMEBA.CONDITION"}

\* One pass of ameba_loop() up to its await.
AmebaLoopPoll ==
  /\ status_loop_task \in {"sleeping", "polling", "finished"}
  /\ poll.ameba \in {"none", "sleeping"}
  /\ poll.an < MaxPolls
  /\ IF connected
     THEN /\ RunCommandStep("GET", AmebaVars, TRUE, "ameba_loop")
          /\ poll' = [poll EXCEPT !.aix = Len(cmd) + 1, !.an = poll.an + 1,
                                  !.ameba = IF transport = "reset"
                                            THEN "finished" ELSE "polling"]
     ELSE /\ poll' = [poll EXCEPT !.ameba = "finished"]
          /\ UNCHANGED <<reader, writer, transport, inbox, sent, index_gen, cmd,
                         running_commands, reply_loop_task, waiter, status, log,
                         status_loop_task>>
  /\ UNCHANGED <<life, nconnect, nlines, lost, served, wire, klass, ws_remote, csc, overlap, weather, read_level, write_level, reply, boot, stop, mock,
                 dimm, meas, calls>>

\* The try block of ameba_loop() raises: run_command did, or get_int or
\* get_float did on the command it returned.
AmebaRaises(c, out) ==
  \/ out # "result"
  \/ \E k \in 1..Len(AmebaVars) :
       IF AmebaVars[k] \in AmebaIntVars
       THEN get_int(c, AmebaVars[k], -1).exc # ""
       ELSE get_float(c, AmebaVars[k]).exc # ""

\* The GET is over: the values are read and the loop sleeps; an Exception
\* ends the loop with the status ERROR.
AmebaLoopRead ==
  /\ poll.ameba = "polling"
  /\ status_loop_task \notin {"cancelling", "cancelled"}
  /\ Resumed(poll.aix)
  /\ IF AmebaRaises(cmd[poll.aix], AwaitOutcome(poll.aix))
     THEN /\ status' = "ERROR"
          /\ poll' = [poll EXCEPT !.ameba = "finished"]
     ELSE /\ UNCHANGED status
          /\ poll' = [poll EXCEPT !.ameba = "sleeping"]
  /\ UNCHANGED <<reader, writer, transport, inbox, sent, index_gen, cmd,
                 running_commands, reply_loop_task, waiter, life, log, nconnect,
                 nlines, lost, served, status_loop_task, wire, klass, ws_remote, csc, overlap, weather, read_level, write_level, reply, boot, stop, mock,
                 dimm, meas, calls>>

\* The cancelled loop takes CancelledError, which its except clause does not
\* catch, and ends.
StatusLoopEnd ==
  /\ status_loop_task = "cancelling"
  /\ status_loop_task' = "cancelled"
  /\ UNCHANGED <<reader, writer, transport, inbox, sent, index_gen, cmd,
                 running_commands, reply_loop_task, waiter, life, status, log,
                 nconnect, nlines, lost, served, other>>

\* ------------------------------------------------------------- start
\* The command start() awaited ended with CancelledError.
StartCancelled ==
  boot.ix # 0 /\ AwaitOutcome(boot.ix) \in CancellationOutcome

\* The command awaited is over and the next one is sent.  An exception in the
\* weather report ends connect() with the status ERROR and start() goes on
\* with the SKY commands; one in the SKY commands ends start().  Without the
\* mock there is no weather report.  CancelledError is no Exception: it ends
\* connect() and start() wherever it is raised.  boot.k past the last
\* command: start() returned.
StartStep ==
  /\ life = "start"
  /\ IF boot.ix = 0 THEN TRUE ELSE Resumed(boot.ix)
  /\ LET failed == boot.ix # 0 /\ AwaitOutcome(boot.ix) \in Raises
         caught == failed /\ ~StartCancelled /\ boot.k <= WeatherCommands
         next == IF ~mock.on /\ boot.k < WeatherCommands
                 THEN WeatherCommands + 1 ELSE boot.k + 1
         idle == UNCHANGED <<reader, writer, transport, inbox, sent, index_gen,
                             cmd, running_commands, reply_loop_task,
                             status_loop_task, waiter, log>>
     IN IF caught \/ (~connected /\ next <= WeatherCommands)
        THEN /\ status' = "ERROR"
             /\ boot' = [k |-> WeatherCommands, ix |-> 0]
             /\ UNCHANGED life
             /\ idle
        ELSE IF failed \/ ~connected
        THEN /\ life' = "idle"
             /\ UNCHANGED <<status, boot>>
             /\ idle
        ELSE IF next > Len(StartupCommands)
        THEN /\ life' = "idle"
             /\ status' = "INITIALIZED"
             /\ boot' = [boot EXCEPT !.k = next]
             /\ idle
        ELSE /\ RunCommandStep("SET", <<StartupCommands[next]>>, TRUE,
                               IF next = WeatherCommands + 1 /\ boot.ix # 0
                               THEN "start" ELSE "caller")
             /\ boot' = [k |-> next, ix |-> Len(cmd) + 1]
             /\ UNCHANGED life
  /\ UNCHANGED <<nconnect, nlines, lost, served, wire, klass, ws_remote, csc, overlap, weather, read_level, write_level, reply, poll, stop, mock,
                 dimm, meas, calls>>

\* start() returned (it raised otherwise).
StartReturned == boot.k > Len(StartupCommands)

\* start() is called on a controller used on its own: it awaits connect().
Start ==
  /\ csc.task["handler"].pc = "idle"
  /\ nconnect = 0
  /\ ConnectCall
  /\ csc' = [csc EXCEPT !.task["handler"].pc = "start"]

\* start() is over: it returned after the SKY commands, or it raised.
StartEnd ==
  /\ csc.task["handler"].pc = "start"
  /\ life = "idle"
  /\ csc' = [csc EXCEPT !.task["handler"].pc = "idle",
                        !.task["handler"].call =
                            IF StartReturned THEN "returned" ELSE "raised"]
  /\ UNCHANGED <<reader, writer, transport, inbox, sent, index_gen, cmd,
                 running_commands, reply_loop_task, status_loop_task, waiter,
                 log, status, life, nconnect, nlines, lost, served, wire, klass, ws_remote, overlap, weather,
                 read_level, write_level, reply, poll, stop, mock, boot, dimm,
                 meas, calls>>

\* ------------------------------------------------------------- stop
NotStopped == [called |-> FALSE, ix |-> 0, raised |-> ""]

SkyPrecipitating == <<"SKY.status", "3">>

\* stop(): the status is INITIALIZED; when connected, tell the DIMM to close
\* up and wait for the command to be done.
Stop ==
  /\ life = "idle"
  /\ ~stop.called
  /\ IF connected
     THEN /\ RunCommandStep("SET", <<SkyPrecipitating>>, TRUE, "stop")
          /\ stop' = [stop EXCEPT !.called = TRUE, !.ix = Len(cmd) + 1]
          /\ life' = "stop_set"
     ELSE /\ stop' = [stop EXCEPT !.called = TRUE]
          /\ status' = "INITIALIZED"
          /\ UNCHANGED <<reader, writer, transport, inbox, sent, index_gen, cmd,
                         running_commands, reply_loop_task, status_loop_task,
                         waiter, log, life>>
  /\ UNCHANGED <<nconnect, nlines, lost, served, wire, klass, ws_remote, csc, overlap, weather, read_level, write_level, reply, boot, poll, mock, dimm,
                 meas, calls>>

\* The SET is over: done, stop() goes on to disconnect(); otherwise run_command
\* raises and stop() ends there.
StopSetDone ==
  /\ life = "stop_set"
  /\ Resumed(stop.ix)
  /\ IF AwaitOutcome(stop.ix) \notin Raises
     THEN /\ DisconnectStep
          /\ UNCHANGED stop
     ELSE /\ stop' = [stop EXCEPT !.raised = AwaitOutcome(stop.ix)]
          /\ life' = "idle"
          /\ UNCHANGED <<reader, writer, transport, inbox, sent, cmd, log,
                         reply_loop_task, status_loop_task>>
  /\ UNCHANGED <<index_gen, running_commands, waiter, status, nconnect, nlines,
                 lost, served, wire, klass, ws_remote, csc, overlap, weather, read_level, write_level, reply, boot, poll, mock, dimm, meas,
                 calls>>

\* ------------------------------------------------------------- mock server
\* Config: the startup conditions, in tenths.
HumLow == 970
WindLow == 90
TempStart == -200

FloatFields ==
  {"WEATHER.TEMP_AMB", "WEATHER.WIND", "WEATHER.WIND_DIR", "WEATHER.RH",
   "SKY.TEMP", "SCOPE.RA", "SCOPE.DEC", "SCOPE.ALT", "SCOPE.AZ",
   "DOME.POSITION", "DIMM.TIMESTAMP"} \cup SeeingVarSet

\* The IntEnum fields and the values of their types.
EnumFields ==
  ("AMEBA.MODE" :> 0..2) @@ ("AMEBA.STATE" :> 0..5) @@ ("WEATHER.RAIN" :> 0..1)
  @@ ("SKY.STATUS" :> 0..3) @@ ("SCOPE.MOTION_STATE" :> -2..2)
  @@ ("SCOPE.POWER_STATE" :> 0..1) @@ ("DOME.POWER_STATE" :> 0..1)
  @@ ("SERVICE.CONTROL" :> 0..2)

StrFields == {"AMEBA.MANUAL.NAME"}

\* The variables that name the `service` submodule's control field.
ServiceControls ==
  {"AMEBA.SERVICE.CONTROL", "DIMM.SERVICE.CONTROL", "SCOPE.SERVICE.CONTROL",
   "METEO.SERVICE.CONTROL"}

\* The attribute a variable name leads to.  `service` is a class attribute of
\* BaseToplevelModule: getattr on any top-level module gives the one
\* ServiceSubmodule object.
Cell(v) == IF v \in ServiceControls THEN "SERVICE.CONTROL" ELSE v

\* _settable_fields of AmebaModule, WeatherModule and SkyModule.
Settable ==
  {"AMEBA.MODE", "WEATHER.TEMP_AMB", "WEATHER.WIND", "WEATHER.WIND_DIR",
   "WEATHER.RH", "WEATHER.RAIN", "SKY.STATUS", "SKY.TEMP", "AMEBA.MANUAL.NAME"}
  \cup ServiceControls

\* The modules GET and SET may access.
module_names == {"AMEBA", "DIMM", "SCOPE", "METEO", "WEATHER", "SKY"}

\* The variable tree as the modules' class attributes give it: floats in
\* tenths, enums by value.
Tree0 ==
  [v \in FloatFields |->
     CASE v = "WEATHER.WIND" -> 99
       [] v = "WEATHER.RH" -> 1000
       [] v = "SKY.TEMP" -> -190
       [] OTHER -> 0]
  @@ ("AMEBA.MODE" :> 1) @@ ("AMEBA.STATE" :> 0) @@ ("WEATHER.RAIN" :> 1)
  @@ ("SKY.STATUS" :> 3) @@ ("SCOPE.MOTION_STATE" :> -1)
  @@ ("SCOPE.POWER_STATE" :> 0) @@ ("DOME.POWER_STATE" :> 0)
  @@ ("SERVICE.CONTROL" :> 0) @@ ("AMEBA.MANUAL.NAME" :> "")

NoMock == [on |-> FALSE]

\* MockAstelcoDIMM.__init__
Mock(require_authentication) ==
  [on |-> TRUE,
   require_authentication |-> require_authentication,
   authenticated |-> ~require_authentication,
   session |-> "none",
   closed |-> FALSE,
   auto_loop_task |-> "done",
   tree |-> Tree0]

\* varname.lower().split("."): the dotted name, case folded.
Fold(varname) == IF varname = "SKY.status" THEN "SKY.STATUS" ELSE varname

ModuleOf(v) ==
  CASE v \in {"AMEBA.MODE", "AMEBA.STATE", "AMEBA.MANUAL.NAME",
              "AMEBA.SERVICE.CONTROL"} -> "AMEBA"
    [] v = "METEO.SERVICE.CONTROL" -> "METEO"
    [] v \in {"WEATHER.TEMP_AMB", "WEATHER.WIND", "WEATHER.WIND_DIR",
              "WEATHER.RH", "WEATHER.RAIN"} -> "WEATHER"
    [] v \in {"SKY.STATUS", "SKY.TEMP"} -> "SKY"
    [] v \in {"SCOPE.RA", "SCOPE.DEC", "SCOPE.ALT", "SCOPE.AZ",
              "SCOPE.MOTION_STATE", "SCOPE.POWER_STATE",
              "SCOPE.SERVICE.CONTROL"} -> "SCOPE"
    [] v \in {"DIMM.TIMESTAMP", "DIMM.SERVICE.CONTROL"} \cup SeeingVarSet -> "DIMM"
    [] v \in {"DOME.POSITION", "DOME.POWER_STATE"} -> "DOME"
    [] OTHER -> ""

\* A string value on the wire, in double quotes, and the string it holds.
StrText == ("\"a b\"" :> "a b") @@ ("\"\"" :> "")

\* f"{value}" of a float or of an IntEnum; a str comes in double quotes.
Format(c, value) ==
  IF c \in FloatFields
  THEN CHOOSE t \in DOMAIN FloatText : FloatText[t] = value
  ELSE IF c \in StrFields
  THEN CHOOSE t \in DOMAIN StrText : StrText[t] = value
  ELSE CHOOSE t \in DOMAIN IntText : IntText[t] = value

\* set_field: the tree afterwards, and whether it raised.
set_field(tree, varname, value_str) ==
  LET v == Fold(varname)
      text == Val(FALSE, <<value_str>>)
      failed == [tree |-> tree, raised |-> TRUE]
      c == Cell(v)
  IN IF ModuleOf(v) \notin module_names \/ v \notin Settable THEN failed
     ELSE IF c \in StrFields
     THEN IF value_str \notin DOMAIN StrText THEN failed
          ELSE [tree |-> [tree EXCEPT ![c] = StrText[value_str]], raised |-> FALSE]
     ELSE IF c \in FloatFields
     THEN IF float(text).exc # "" THEN failed
          ELSE [tree |-> [tree EXCEPT ![c] = float(text).val.v], raised |-> FALSE]
     ELSE IF int(text).exc # "" \/ int(text).val \notin EnumFields[c] THEN failed
          ELSE [tree |-> [tree EXCEPT ![c] = int(text).val], raised |-> FALSE]

can_open(tree) ==
  /\ tree["WEATHER.RH"] <= HumLow
  /\ tree["WEATHER.WIND"] <= WindLow
  /\ tree["WEATHER.RAIN"] = 0
  /\ tree["SKY.STATUS"] = 0
  /\ tree["SKY.TEMP"] <= TempStart

CancelAuto_ignored(t) == t

\* Task.cancel() on auto_loop_task: a task that has not run yet ends without
\* entering auto_loop(); a sleeping one takes CancelledError.
CancelAuto(t) ==
  CASE t = "created" -> "dropping"
    [] t \in {"slewing", "measuring"} -> "cancelling"
    [] OTHER -> t

\* What a command handler did: the mock afterwards and the lines it wrote.
Did(m, lines) == [mock |-> m, lines |-> lines]

write_not_authenticated(id) ==
  <<Line(id, "COMMAND", "ERROR", Val(FALSE, <<"UNAUTHENTICATED">>)),
    Line(id, "COMMAND", "FAILED", NoVal)>>

ErrorValue == Val(FALSE, <<"FAILED", "15">>)

\* The sub-requests of the form {variablename}!{propertyname}.
PropertyRequests ==
  ("WEATHER.RAIN!TYPE" :> <<"WEATHER.RAIN", "TYPE">>)
  @@ ("SKY.TEMP!type" :> <<"SKY.TEMP", "type">>)
  @@ ("AMEBA.MANUAL.NAME!TYPE" :> <<"AMEBA.MANUAL.NAME", "TYPE">>)
  @@ ("SKY.TEMP!UNITS" :> <<"SKY.TEMP", "UNITS">>)
  @@ ("NO.SUCH.VARIABLE!TYPE" :> <<"NO.SUCH.VARIABLE", "TYPE">>)

\* varname_property.partition("!"): the variable name and the property.
partition(varname_property) ==
  IF varname_property \in DOMAIN PropertyRequests
  THEN PropertyRequests[varname_property]
  ELSE <<varname_property, "">>

\* property.lower()
lower(property) ==
  CASE property \in {"TYPE", "type"} -> "type"
    [] property = "UNITS" -> "units"
    [] OTHER -> property

\* varname_property.upper()
upper(varname_property) ==
  IF varname_property = "SKY.TEMP!type" THEN "SKY.TEMP!TYPE"
  ELSE Fold(varname_property)

\* The VariableType of a field's value: INT for an IntEnum, FLOAT, STRING.
VariableType(c) ==
  IF c \in FloatFields THEN 2 ELSE IF c \in StrFields THEN 3 ELSE 1

\* get_field(varname) returns: the module is one GET may access and the name
\* leads to a field.
HasField(m, varname) ==
  /\ ModuleOf(Fold(varname)) \in module_names
  /\ Cell(Fold(varname)) \in DOMAIN m.tree

\* One pass of do_get's loop: the DATA line for one sub-request.
GetData(m, id, varname_property) ==
  LET varname == partition(varname_property)[1]
      property == lower(partition(varname_property)[2])
      c == Cell(Fold(varname))
  IN IF ~HasField(m, varname)
     THEN Line(id, "DATA_ERROR", upper(varname), ErrorValue)
     ELSE CASE property = "" ->
                 Line(id, "DATA_INLINE", upper(varname),
                      Val(FALSE, <<Format(c, m.tree[c])>>))
            [] property = "type" ->
                 Line(id, "DATA_INLINE", upper(varname_property),
                      Val(FALSE, <<CHOOSE t \in DOMAIN IntText :
                                     IntText[t] = VariableType(c)>>))
            [] OTHER -> Line(id, "DATA_ERROR", upper(varname), ErrorValue)

GetReply_failing(m, id, arg) ==
  LET data == [k \in 1..Len(arg) |-> GetData(m, id, arg[k])]
      failed == \E k \in 1..Len(arg) : data[k].kind = "DATA_ERROR"
  IN <<Line(id, "COMMAND", "OK", NoVal)>> \o data
       \o <<Line(id, "COMMAND", IF failed THEN "FAILED" ELSE "COMPLETE", NoVal)>>

\* do_get past the authentication check.
GetReply(m, id, arg) ==
  <<Line(id, "COMMAND", "OK", NoVal)>>
  \o [k \in 1..Len(arg) |-> GetData(m, id, arg[k])]
  \o <<Line(id, "COMMAND", "COMPLETE", NoVal)>>

do_get(m, id, arg) ==
  IF ~m.authenticated THEN Did(m, write_not_authenticated(id))
  ELSE Did(m, GetReply(m, id, arg))

\* do_set's loop over the parts of the argument, each part as split("=")
\* gives it.  `varname, value_str = ...` is outside the try: a part that is
\* not one name and one value raises ValueError out of do_set, after the parts
\* before it were set.
RECURSIVE SetFields(_, _, _)
SetFields(tree, id, pairs) ==
  IF pairs = <<>> THEN [tree |-> tree, lines |-> <<>>, raised |-> FALSE]
  ELSE IF Len(Head(pairs)) # 2
  THEN [tree |-> tree, lines |-> <<>>, raised |-> TRUE]
  ELSE LET r == set_field(tree, Head(pairs)[1], Head(pairs)[2])
           rest == SetFields(r.tree, id, Tail(pairs))
       IN [tree |-> rest.tree,
           lines |-> <<IF r.raised
                       THEN Line(id, "DATA_ERROR", Head(pairs)[1], ErrorValue)
                       ELSE Line(id, "DATA_OK", Head(pairs)[1], NoVal)>>
                     \o rest.lines,
           raised |-> rest.raised]

\* do_set past the authentication check: set the fields, then start or cancel
\* the automatic loop.  When do_set raises, command_loop writes COMMAND FAILED
\* and reads the next line.
SetReply(m, id, arg) ==
  LET r == SetFields(m.tree, id, arg)
      auto == IF r.tree["AMEBA.MODE"] = 1 /\ can_open(r.tree)
              THEN IF m.auto_loop_task = "done" THEN "created"
                   ELSE m.auto_loop_task
              ELSE CancelAuto(m.auto_loop_task)
  IN IF r.raised
     THEN Did([m EXCEPT !.tree = r.tree],
              <<Line(id, "COMMAND", "OK", NoVal)>> \o r.lines
                \o <<Line(id, "COMMAND", "FAILED", NoVal)>>)
     ELSE Did([m EXCEPT !.tree = r.tree, !.auto_loop_task = auto],
              <<Line(id, "COMMAND", "OK", NoVal)>> \o r.lines
                \o <<Line(id, "COMMAND", "COMPLETE", NoVal)>>)

do_set_open(m, id, arg) == SetReply(m, id, arg)

do_set(m, id, arg) ==
  IF ~m.authenticated THEN Did(m, write_not_authenticated(id))
  ELSE SetReply(m, id, arg)

do_auth(m, method) ==
  IF method # "PLAIN" THEN Did(m, <<Line(0, "AUTH", "UNSUPPORTED", NoVal)>>)
  ELSE Did([m EXCEPT !.authenticated = TRUE],
           <<Line(0, "AUTH", "OK", Val(FALSE, <<"20", "20">>))>>)

\* do_disconnect: DISCONNECT OK, then close_client.
do_disconnect(m) ==
  Did([m EXCEPT !.session = "none"], <<Line(0, "OTHER", "", NoVal)>>)

\* The dispatchers' patterns, matched at the start of the line: AUTH and
\* DISCONNECT carry no number (id 0 stands for none), GET and SET need one and
\* an argument.
Dispatched(l) ==
  CASE l.verb \in {"AUTH", "DISCONNECT"} -> l.id = 0
    [] l.verb \in {"GET", "SET"} -> l.id # 0 /\ l.arg # <<>>
    [] OTHER -> FALSE

UnknownCommand_silent(m, id) ==
  Did(m, <<Line(id, "COMMAND", "FAILED", NoVal)>>)

\* No pattern matches: COMMAND ERROR UNKNOWN, COMMAND FAILED, and the loop
\* reads the next line.
UnknownCommand(m, id) ==
  Did(m, <<Line(id, "COMMAND", "ERROR", Val(FALSE, <<"UNKNOWN">>)),
           Line(id, "COMMAND", "FAILED", NoVal)>>)

\* One pass of command_loop for the line that was read.
Command(m, l) ==
  IF ~Dispatched(l) THEN UnknownCommand(m, l.id)
  ELSE CASE l.verb = "AUTH" -> do_auth(m, l.arg[1])
         [] l.verb = "DISCONNECT" -> do_disconnect(m)
         [] l.verb = "GET" -> do_get(m, l.id, l.arg)
         [] l.verb = "SET" -> do_set(m, l.id, l.arg)

Welcome == Line(0, "WELCOME", "TPL2", NoVal)

\* connect_callback: a client connected and command_loop starts with the
\* welcome line.
MockAccept ==
  /\ mock.on
  /\ ~mock.closed
  /\ mock.session = "none"
  /\ transport = "up" \/ (transport = "none" /\ served < Len(sent))
  /\ mock' = [mock EXCEPT !.session = "open"]
  /\ inbox' = IF transport = "up" THEN Append(inbox, Welcome) ELSE inbox
  /\ UNCHANGED <<reader, writer, transport, sent, wire, klass, ws_remote, csc, overlap, weather, read_level, write_level, reply, boot, status_loop_task,
                 poll, stop, index_gen, cmd, running_commands, reply_loop_task,
                 waiter, life, status, log, nconnect, nlines, lost, served,
                 dimm, meas, calls>>

\* command_loop reads the next line and handles it.  What it writes reaches
\* the client while the client holds the stream; closing the client ends the
\* stream for the other side.
MockCommand ==
  /\ mock.on
  /\ mock.session = "open"
  /\ served < Len(sent)
  /\ served' = served + 1
  /\ LET d == Command(mock, sent[served + 1])
     IN /\ mock' = d.mock
        /\ inbox' = IF transport = "up" THEN inbox \o d.lines ELSE inbox
        /\ transport' = IF transport = "up" /\ d.mock.session = "none"
                        THEN "eof" ELSE transport
  /\ UNCHANGED <<reader, writer, sent, wire, klass, ws_remote, csc, overlap, weather, read_level, write_level, reply, boot, status_loop_task, poll,
                 stop, index_gen, cmd, running_commands, reply_loop_task,
                 waiter, life, status, log, nconnect, nlines, lost, dimm, meas,
                 calls>>

\* readuntil raises IncompleteReadError: the client closed the stream and
\* every line it wrote was read.
MockConnectionLost ==
  /\ mock.on
  /\ mock.session = "open"
  /\ transport = "none"
  /\ served = Len(sent)
  /\ mock' = [mock EXCEPT !.session = "none"]
  /\ UNCHANGED <<reader, writer, transport, inbox, sent, wire, klass, ws_remote, csc, overlap, weather, read_level, write_level, reply, boot,
                 status_loop_task, poll, stop, index_gen, cmd, running_commands,
                 reply_loop_task, waiter, life, status, log, nconnect, nlines,
                 lost, served, dimm, meas, calls>>

MockFrame ==
  UNCHANGED <<reader, writer, transport, inbox, sent, wire, klass, ws_remote, csc, overlap, weather, read_level, write_level, reply, boot,
              status_loop_task, poll, stop, index_gen, cmd, running_commands,
              reply_loop_task, waiter, life, status, log, nconnect, nlines,
              lost, served, dimm, meas, calls>>

RandomTargets == {10, 25}

\* auto_loop() up to its first sleep: power up, then slew to a random target.
AutoLoopStart ==
  /\ mock.on
  /\ mock.auto_loop_task = "created"
  /\ \E r \in RandomTargets :
       mock' = [mock EXCEPT
                  !.auto_loop_task = "slewing",
                  !.tree = [v \in DOMAIN mock.tree |->
                     CASE v \in {"DOME.POWER_STATE", "SCOPE.POWER_STATE"} -> 1
                       [] v = "DOME.POSITION" -> mock.tree["SCOPE.AZ"]
                       [] v = "AMEBA.STATE" -> 2
                       [] v = "SCOPE.MOTION_STATE" -> 1
                       [] v \in {"SCOPE.RA", "SCOPE.DEC", "SCOPE.AZ", "SCOPE.ALT"} -> r
                       [] OTHER -> mock.tree[v]]]
  /\ MockFrame

\* The slew is over: monitoring.
AutoLoopSlewed ==
  /\ mock.on
  /\ mock.auto_loop_task = "slewing"
  /\ mock' = [mock EXCEPT !.auto_loop_task = "measuring",
                          !.tree["AMEBA.STATE"] = 5,
                          !.tree["SCOPE.MOTION_STATE"] = 2]
  /\ MockFrame

\* The measurement is over: its data are set (one value stands for each
\* random draw) and the next slew begins.
AutoLoopMeasured ==
  /\ mock.on
  /\ mock.auto_loop_task = "measuring"
  /\ \E r \in RandomTargets :
       mock' = [mock EXCEPT
                  !.auto_loop_task = "slewing",
                  !.tree = [v \in DOMAIN mock.tree |->
                     CASE v = "DIMM.TIMESTAMP" -> 25
                       [] v \in SeeingVarSet -> FloatText[InstrumentValue(v)]
                       [] v = "AMEBA.STATE" -> 2
                       [] v = "SCOPE.MOTION_STATE" -> 1
                       [] v \in {"SCOPE.RA", "SCOPE.DEC", "SCOPE.AZ", "SCOPE.ALT"} -> r
                       [] OTHER -> mock.tree[v]]]
  /\ MockFrame

\* The cancelled loop ends: the finally block parks the dome and the scope.
\* A task cancelled before its first step ends without running auto_loop().
AutoLoopEnd ==
  /\ mock.on
  /\ mock.auto_loop_task \in {"cancelling", "dropping"}
  /\ mock' = [mock EXCEPT
                !.auto_loop_task = "done",
                !.tree = IF mock.auto_loop_task = "dropping" THEN mock.tree
                         ELSE [v \in DOMAIN mock.tree |->
                           CASE v \in {"DOME.POSITION", "SCOPE.RA", "SCOPE.DEC",
                                       "SCOPE.AZ", "SCOPE.ALT"} -> 0
                             [] v = "SCOPE.MOTION_STATE" -> -1
                             [] v \in {"DOME.POWER_STATE", "SCOPE.POWER_STATE"} -> 0
                             [] OTHER -> mock.tree[v]]]
  /\ MockFrame

\* ------------------------------------------------------------- a stream client
\* A client of the mock that writes lines of its choice, as the unit tests do.
GoodConditions ==
  [k \in 1..Len(StartupCommands) |-> StartupCommands[k]]

RawLines(i) ==
  {ClientLine(0, "AUTH", <<"PLAIN">>), ClientLine(0, "AUTH", <<"MD5">>),
   ClientLine(i, "GET", <<"SKY.STATUS", "SCOPE.MOTION_STATE">>),
   ClientLine(i, "SET", GoodConditions),
   ClientLine(i, "SET", <<SkyPrecipitating>>),
   ClientLine(i, "SET", << <<"AMEBA.STATE", "1">> >>),
   ClientLine(i, "SET", << <<"AMEBA.MODE", "0">> >>),
   ClientLine(i, "SET", << <<"SCOPE.SERVICE.CONTROL", "1">>,
                           <<"AMEBA.MANUAL.NAME", "\"a b\"">> >>),
   ClientLine(i, "SET", << <<"AMEBA.SERVICE.CONTROL", "2">>,
                           <<"WEATHER.RH", "9.9">> >>),
   ClientLine(i, "GET", <<"SCOPE.SERVICE.CONTROL", "AMEBA.MANUAL.NAME",
                          "WEATHER.RH">>),
   ClientLine(i, "GET", <<"WEATHER.RAIN", "WEATHER.RAIN!TYPE",
                          "NO.SUCH.VARIABLE", "SKY.TEMP!UNITS">>),
   ClientLine(i, "GET", <<"SKY.TEMP!type", "NO.SUCH.VARIABLE!TYPE",
                          "AMEBA.MANUAL.NAME!TYPE", "DOME.POSITION",
                          "SKY.TEMP">>),
   ClientLine(i, "SET", << <<"WEATHER.RAIN", "0">>, <<"SKY.TEMP">>,
                           <<"AMEBA.MODE", "0">> >>),
   ClientLine(i, "NOP", <<>>),
   ClientLine(0, "GET", <<"SKY.TEMP">>),
   ClientLine(i, "AUTH", <<"PLAIN">>),
   DisconnectLine}

RawFrame ==
  UNCHANGED <<wire, klass, ws_remote, csc, overlap, weather, read_level, write_level, reply, status_loop_task, poll, stop, mock, boot, index_gen,
              cmd, running_commands, reply_loop_task, waiter, status, log,
              nlines, lost, dimm, meas, calls>>

\* asyncio.open_connection
RawOpen ==
  /\ ~connected
  /\ mock.session = "none"
  /\ served = Len(sent)
  /\ nconnect < MaxConnects
  /\ nconnect' = nconnect + 1
  /\ reader' = TRUE
  /\ writer' = TRUE
  /\ transport' = "up"
  /\ inbox' = <<>>
  /\ UNCHANGED served
  /\ life' = "idle"
  /\ UNCHANGED sent
  /\ RawFrame

\* The client writes a line; DISCONNECT is the last line it writes on a
\* connection.
RawWrite ==
  /\ connected
  /\ life = "idle"
  /\ Len(sent) < MaxRaw
  /\ \E l \in RawLines(Len(sent) + 1) :
       /\ sent' = Append(sent, l)
       /\ life' = IF l = DisconnectLine THEN "disconnecting" ELSE life
  /\ UNCHANGED <<reader, writer, transport, inbox, nconnect, served>>
  /\ RawFrame

\* SET lines that mix pairs the mock refuses with pairs it accepts.
SetLines(i) ==
  {ClientLine(0, "AUTH", <<"PLAIN">>),
   ClientLine(i, "SET", << <<"DOME.POSITION", "1.0">>, <<"WEATHER.RH", "9.9">> >>),
   ClientLine(i, "SET", << <<"NO.SUCH.VARIABLE", "1">>, <<"WEATHER.RAIN", "0">> >>),
   ClientLine(i, "SET", << <<"AMEBA.STATE", "1">>,
                           <<"AMEBA.MANUAL.NAME", "a b">>,
                           <<"AMEBA.MANUAL.NAME", "\"a b\"">> >>),
   ClientLine(i, "SET", << <<"SKY.TEMP", "abc">>, <<"WEATHER.RAIN", "5">>,
                           <<"SKY.TEMP", "-25.0">>, <<"AMEBA.MODE", "2">> >>),
   ClientLine(i, "SET", << <<"AMEBA.STATE", "1">>, <<"SKY.TEMP">>,
                           <<"AMEBA.MODE", "0">> >>),
   ClientLine(i, "GET", <<"WEATHER.RH", "WEATHER.RAIN", "SKY.TEMP">>)}

\* The client writes one of them.
RawWriteSet ==
  /\ connected
  /\ life = "idle"
  /\ Len(sent) < MaxRaw
  /\ \E l \in SetLines(Len(sent) + 1) : sent' = Append(sent, l)
  /\ UNCHANGED <<reader, writer, transport, inbox, nconnect, served, life>>
  /\ RawFrame

\* The client closes its writer.
RawClose ==
  /\ connected
  /\ reader' = FALSE
  /\ writer' = FALSE
  /\ transport' = "none"
  /\ inbox' = <<>>
  /\ UNCHANGED <<sent, nconnect, served, life>>
  /\ RawFrame

\* ------------------------------------------------------------- the CSC
\* What the CSC's steps leave alone.
CscFrame ==
  UNCHANGED <<life, nconnect, nlines, lost, served, wire, klass, ws_remote, overlap, weather,
              read_level, write_level, reply, poll, stop, mock, boot, dimm,
              meas, calls>>

\* What a step that sends no command leaves alone.
NoCommand ==
  UNCHANGED <<reader, writer, transport, inbox, sent, index_gen, cmd,
              running_commands, reply_loop_task, status_loop_task, waiter, log>>

\* controller.stop() is over in task t: it returned, or raised `how`.
\* fault() and begin_disable() catch Exception and go on to the state change
\* (super().fault(), or DISABLED once begin_disable returns); CancelledError
\* is no Exception: it leaves fault(), telemetry_loop() swallows it, the
\* health monitor and the command handler end with it.
AfterStop(c, t, how) ==
  LET call == c.task[t].call
      cancelled == how \in CancellationOutcome
      state == IF cancelled THEN c.summary_state
               ELSE IF call = "begin_disable" THEN "DISABLED" ELSE "FAULT"
      pc == CASE t = "handler" ->
                   IF call = "begin_disable" /\ ~cancelled THEN "end_disable"
                   ELSE "idle"
               [] t = "telemetry_loop" -> "done"
               [] t = "health_monitor" ->
                   IF cancelled THEN "done"
                   ELSE IF call = "seeing" THEN "check_telemetry"
                   ELSE "sleeping"
  IN [c EXCEPT !.summary_state = state, !.task[t] = Task(pc)]

\* The two flags fault() and begin_disable() clear before they stop the
\* controller.
LoopsToldToEnd(c, t, call) ==
  [c EXCEPT !.telemetry_loop_running = FALSE,
            !.seeing_loop_running = FALSE,
            !.task[t].call = call]

\* controller.stop() called in task t, up to its first suspension; c is the
\* CSC as the caller left it.
StopCall(c, t) ==
  IF connected
  THEN /\ RunCommandStep("SET", <<SkyPrecipitating>>, TRUE, "stop")
       /\ csc' = [c EXCEPT !.task[t].pc = "stop_set",
                           !.task[t].ix = Len(cmd) + 1]
  ELSE /\ status' = "INITIALIZED"
       /\ csc' = AfterStop(c, t, "returned")
       /\ NoCommand

\* stop(): the SET is over; done, stop() goes on to disconnect().
CscStopSetDone ==
  /\ \E t \in Tasks :
       /\ csc.task[t].pc = "stop_set"
       /\ Resumed(csc.task[t].ix)
       /\ LET how == AwaitOutcome(csc.task[t].ix) IN
          IF how \notin Raises
          THEN /\ reply_loop_task' = CancelLoop(reply_loop_task)
               /\ status_loop_task' = CancelStatus(status_loop_task)
               /\ cmd' = CancelPolled(cmd)
               /\ IF LoopsDone
                  THEN /\ Release(sent, log)
                       /\ csc' = AfterStop(csc, t, "returned")
                  ELSE /\ csc' = [csc EXCEPT !.task[t].pc = "stop_disconnect"]
                       /\ UNCHANGED <<reader, writer, transport, inbox, sent,
                                      log>>
          ELSE /\ csc' = AfterStop(csc, t, how)
               /\ UNCHANGED <<reader, writer, transport, inbox, sent, cmd, log,
                              reply_loop_task, status_loop_task>>
  /\ UNCHANGED <<index_gen, running_commands, waiter, status>>
  /\ CscFrame

\* stop(): the tasks disconnect() awaits have ended.
CscStopDisconnected ==
  /\ \E t \in Tasks :
       /\ csc.task[t].pc = "stop_disconnect"
       /\ LoopsDone
       /\ csc' = AfterStop(csc, t, "returned")
  /\ Release(sent, log)
  /\ UNCHANGED <<index_gen, cmd, running_commands, reply_loop_task,
                 status_loop_task, waiter, status>>
  /\ CscFrame

\* do_enable: the summary state is ENABLED, then end_enable() awaits
\* controller.start().
CscEnable ==
  /\ csc.summary_state = "DISABLED"
  /\ csc.task["handler"].pc = "idle"
  /\ nconnect = 0
  /\ ConnectCall
  /\ csc' = [csc EXCEPT !.summary_state = "ENABLED",
                        !.task["handler"].pc = "enabling"]

\* end_enable() after start(): the two loops are created, or fault() when
\* start() raised an Exception; CancelledError ends end_enable().
CscEndEnable ==
  /\ csc.task["handler"].pc = "enabling"
  /\ life = "idle"
  /\ IF StartReturned \/ StartCancelled
     THEN /\ csc' = IF StartCancelled
                    THEN [csc EXCEPT !.task["handler"] = Task("idle")]
                    ELSE [csc EXCEPT !.task["handler"] = Task("idle"),
                                     !.task["telemetry_loop"] = Task("created"),
                                     !.task["seeing_loop"] = Task("created")]
          /\ NoCommand
          /\ UNCHANGED status
     ELSE StopCall(LoopsToldToEnd(csc, "handler", "end_enable"), "handler")
  /\ CscFrame

\* begin_disable(): the loops are told to end and the controller is stopped.
CscDisable ==
  /\ csc.summary_state = "ENABLED"
  /\ csc.task["handler"].pc = "idle"
  /\ StopCall(LoopsToldToEnd(csc, "handler", "begin_disable"), "handler")
  /\ CscFrame

\* end_disable(): wait_loop() on the two loops, which ended within
\* loop_die_timeout.
CscEndDisable ==
  /\ csc.task["handler"].pc = "end_disable"
  /\ csc.task["telemetry_loop"].pc \in {"none", "done"}
  /\ csc.task["seeing_loop"].pc = "done"
  /\ csc' = [csc EXCEPT !.task["handler"] = Task("idle")]
  /\ NoCommand
  /\ UNCHANGED status
  /\ CscFrame

\* telemetry_loop() and seeing_loop() up to their while: IOError when the flag
\* of the loop is still set.
LoopStart(t, running) ==
  /\ csc' = IF running THEN [csc EXCEPT !.task[t] = Task("done")]
            ELSE [csc EXCEPT !.task[t] = Task("sleeping"),
                             !.telemetry_loop_running =
                                 IF t = "telemetry_loop" THEN TRUE ELSE @,
                             !.seeing_loop_running =
                                 IF t = "seeing_loop" THEN TRUE ELSE @]
  /\ NoCommand
  /\ UNCHANGED status
  /\ CscFrame

TelemetryLoopStart ==
  /\ csc.task["telemetry_loop"].pc = "created"
  /\ LoopStart("telemetry_loop", csc.telemetry_loop_running)

SeeingLoopStart ==
  /\ csc.task["seeing_loop"].pc = "created"
  /\ LoopStart("seeing_loop", csc.seeing_loop_running)

\* One pass of telemetry_loop(): get_status(), controller_running, and
\* fault() when the controller reports ERROR.
TelemetryLoopPass ==
  /\ csc.task["telemetry_loop"].pc = "sleeping"
  /\ IF ~csc.telemetry_loop_running
     THEN /\ csc' = [csc EXCEPT !.task["telemetry_loop"] = Task("done")]
          /\ NoCommand
          /\ UNCHANGED status
     ELSE LET c == [csc EXCEPT !.controller_running = status = "RUNNING"] IN
          IF status = "ERROR"
          THEN StopCall(LoopsToldToEnd(c, "telemetry_loop", "fault"),
                        "telemetry_loop")
          ELSE /\ csc' = c
               /\ NoCommand
               /\ UNCHANGED status
  /\ CscFrame

TimestampVar == <<"DIMM.TIMESTAMP">>

\* One pass of seeing_loop() up to the await in get_measurement(); without a
\* connection run_command raises, get_measurement() returns None and the loop
\* sleeps.
SeeingLoopPass ==
  /\ csc.task["seeing_loop"].pc = "sleeping"
  /\ IF ~csc.seeing_loop_running
     THEN /\ csc' = [csc EXCEPT !.task["seeing_loop"] = Task("done")]
          /\ NoCommand
          /\ UNCHANGED status
     ELSE /\ csc.nseeing < MaxSeeing
          /\ connected
          /\ RunCommandStep("GET", TimestampVar, TRUE, "caller")
          /\ csc' = [csc EXCEPT !.task["seeing_loop"].pc = "timestamp",
                                !.task["seeing_loop"].ix = Len(cmd) + 1,
                                !.nseeing = @ + 1]
  /\ CscFrame

\* get_measurement(): the timestamp was read.  A new one sends the second GET;
\* the old one, or an Exception, makes it return None.  CancelledError ends
\* the task.
SeeingLoopTimestamp ==
  /\ csc.task["seeing_loop"].pc = "timestamp"
  /\ Resumed(csc.task["seeing_loop"].ix)
  /\ LET ix == csc.task["seeing_loop"].ix
         how == AwaitOutcome(ix)
         timestamp == get_float(cmd[ix], "DIMM.TIMESTAMP")
     IN IF how \in CancellationOutcome
        THEN /\ csc' = [csc EXCEPT !.task["seeing_loop"] = Task("done")]
             /\ NoCommand
             /\ UNCHANGED status
        ELSE IF \/ how \in Raises
                \/ timestamp.exc # ""
                \/ FloatEq(timestamp.val, prev_timestamp)
                \/ ~connected
        THEN /\ csc' = [csc EXCEPT !.task["seeing_loop"] = Task("sleeping")]
             /\ NoCommand
             /\ UNCHANGED status
        ELSE /\ RunCommandStep("GET", SeeingVars, TRUE, "caller")
             /\ csc' = [csc EXCEPT !.task["seeing_loop"].pc = "seeing",
                                   !.task["seeing_loop"].ix = Len(cmd) + 1]
  /\ CscFrame

\* get_measurement() is over: the measurement, or None.
SeeingLoopSeeing ==
  /\ csc.task["seeing_loop"].pc = "seeing"
  /\ Resumed(csc.task["seeing_loop"].ix)
  /\ csc' = [csc EXCEPT !.task["seeing_loop"] =
               IF AwaitOutcome(csc.task["seeing_loop"].ix) \in CancellationOutcome
               THEN Task("done") ELSE Task("sleeping")]
  /\ NoCommand
  /\ UNCHANGED status
  /\ CscFrame

\* Task.done()
LoopDone(t) == csc.task[t].pc = "done"

\* One pass of health_monitor() in the ENABLED state: fault() when the seeing
\* loop is done, and otherwise when the telemetry loop is.
HealthMonitorPass ==
  /\ csc.task["health_monitor"].pc = "sleeping"
  /\ csc.summary_state = "ENABLED"
  /\ LoopDone("seeing_loop") \/ LoopDone("telemetry_loop")
  /\ StopCall(LoopsToldToEnd(csc, "health_monitor",
                             IF LoopDone("seeing_loop") THEN "seeing"
                             ELSE "telemetry"),
              "health_monitor")
  /\ CscFrame

\* The pass goes on after the fault() for the seeing loop.
HealthMonitorTelemetry ==
  /\ csc.task["health_monitor"].pc = "check_telemetry"
  /\ IF LoopDone("telemetry_loop")
     THEN StopCall(LoopsToldToEnd(csc, "health_monitor", "telemetry"),
                   "health_monitor")
     ELSE /\ csc' = [csc EXCEPT !.task["health_monitor"] = Task("sleeping")]
          /\ NoCommand
          /\ UNCHANGED status
  /\ CscFrame

\* mock_dimm.close(): the server stops listening and closes the client's
\* stream, which the client sees as the end of the stream or, writing to it,
\* as a reset connection.
MockClose ==
  /\ mock.on
  /\ mock.session = "open"
  /\ transport = "up"
  /\ transport' \in {"eof", "reset"}
  /\ mock' = [mock EXCEPT !.session = "none", !.closed = TRUE]
  /\ UNCHANGED <<reader, writer, inbox, sent, wire, klass, ws_remote, csc, overlap, weather,
                 read_level, write_level, reply, boot, status_loop_task, poll,
                 stop, index_gen, cmd, running_commands, reply_loop_task,
                 waiter, life, status, log, nconnect, nlines, lost, served,
                 dimm, meas, calls>>

\* ------------------------------------------ connect() calls that overlap
\* Two tasks call connect() on one connection.  Caller k opens stream k; the
\* reply loop that caller k creates is reply loop k.  `overlap` holds
\* self.reader / self.writer (the stream they belong to, 0: None),
\* self.reply_loop_task (0: the done future of __init__), what each task is
\* doing, and each stream: the lines its StreamReader has buffered, the lines
\* the peer has still to write, whether it is closed, and the task waiting in
\* its readuntil (a StreamReader lets one coroutine wait).
Callers == {1, 2}
Streams == {1, 2}
Caller(k) == IF k = 1 THEN "c1" ELSE "c2"
Loop(k) == IF k = 1 THEN "l1" ELSE "l2"
OverlapTasks == {"c1", "c2", "l1", "l2"}
IsLoop(a) == a \in {"l1", "l2"}
IndexOf(a) == IF a \in {"c1", "l1"} THEN 1 ELSE 2

OverlapInit(auto_auth) ==
  [auto_auth |-> auto_auth,
   reader |-> 0,
   reply_loop_task |-> 0,
   pc |-> [a \in OverlapTasks |-> IF IsLoop(a) THEN "none" ELSE "idle"],
   rd |-> [a \in OverlapTasks |-> 0],
   woken |-> [a \in OverlapTasks |-> FALSE],
   must_cancel |-> [a \in OverlapTasks |-> FALSE],
   aw |-> [a \in OverlapTasks |-> 0],
   buffer |-> [s \in Streams |-> <<>>],
   owed |-> [s \in Streams |-> <<>>],
   closed |-> [s \in Streams |-> FALSE],
   waiter |-> [s \in Streams |-> "none"]]

\* A connection that a single task uses.
NoOverlap == OverlapInit(FALSE)

\* reply_loop_task.done()
ReplyLoopDone(o, l) == l = 0 \/ o.pc[Loop(l)] \in {"none", "done"}

\* The reply loop task ends: it waits in no read any more.
LoopFinish(o, a) ==
  [o EXCEPT !.pc[a] = "done", !.rd[a] = 0, !.woken[a] = FALSE,
            !.must_cancel[a] = FALSE,
            !.waiter = [s \in Streams |-> IF o.waiter[s] = a THEN "none"
                                          ELSE o.waiter[s]]]

\* An exception leaves the task: connect() raises to its caller, reply_loop
\* logs it and runs its finally block.
Raised(o, a) ==
  IF IsLoop(a) THEN LoopFinish(o, a)
  ELSE [o EXCEPT !.pc[a] = "raised", !.rd[a] = 0]

\* disconnect() after its await: DISCONNECT is written, reader and writer are
\* set to None and the writer is closed, which ends the read of whoever waits
\* on that stream; then the guard re-raises.
DisconnectRest(o, a) ==
  LET s == o.reader
      o1 == IF s = 0 THEN o
            ELSE [o EXCEPT !.reader = 0, !.closed[s] = TRUE,
                           !.woken = [t \in OverlapTasks |-> o.woken[t] \/ o.waiter[s] = t],
                           !.waiter[s] = "none"]
  IN Raised([o1 EXCEPT !.must_cancel[a] = FALSE], a)

\* connection_handler's except clause (and connect() refusing the AUTH reply):
\* disconnect() cancels self.reply_loop_task and awaits it.  A reply loop that
\* cancels itself gets the CancelledError at that await, where it is ignored.
Guard(o, a) ==
  LET l == o.reply_loop_task
  IN IF ReplyLoopDone(o, l) \/ Loop(l) = a
     THEN DisconnectRest(o, a)
     ELSE [o EXCEPT !.must_cancel[Loop(l)] = TRUE, !.pc[a] = "guard_wait",
                    !.aw[a] = l, !.rd[a] = 0]

\* StreamReader.readuntil on stream s: a buffered line at once, an error on
\* a closed stream or when another coroutine waits already, else wait.
ReadUntil(o, a, s) ==
  IF o.buffer[s] # <<>>
  THEN [o |-> [o EXCEPT !.buffer[s] = Tail(o.buffer[s]), !.rd[a] = 0],
        out |-> "line", line |-> Head(o.buffer[s])]
  ELSE IF o.closed[s] \/ o.waiter[s] # "none"
  THEN [o |-> [o EXCEPT !.rd[a] = 0], out |-> "raise", line |-> ""]
  ELSE [o |-> [o EXCEPT !.waiter[s] = a, !.rd[a] = s], out |-> "wait", line |-> ""]

\* read_reply under connection_handler: self.reader is looked up at the call.
read_reply(o, a) ==
  IF o.reader = 0
  THEN [o |-> o, out |-> "raise", line |-> ""]
  ELSE ReadUntil(o, a, o.reader)

\* reply_loop from the top of its while loop; no command is registered, so
\* every line it reads is ignored.
RECURSIVE reply_loop(_, _)
reply_loop(o, a) ==
  IF o.reader = 0 THEN LoopFinish(o, a)
  ELSE LET r == read_reply([o EXCEPT !.pc[a] = "reading"], a)
       IN CASE r.out = "line" -> reply_loop(r.o, a)
            [] r.out = "wait" -> r.o
            [] OTHER -> Guard(r.o, a)

\* connect() from the reply to AUTH on: refuse it, or start the reply loop.
ConnectAuthRead(o, k, line) ==
  IF line # "AUTH"
  THEN Guard(o, Caller(k))
  ELSE [o EXCEPT !.reply_loop_task = k, !.pc[Caller(k)] = "returned",
                 !.pc[Loop(k)] = "created"]

\* connect() from the welcome line on: AUTH is written on self.writer (the
\* peer will answer it on that stream) and the reply is read from self.reader.
ConnectWelcomeRead(o, k, line) ==
  LET a == Caller(k) IN
  IF line # "TPL" THEN Raised(o, a)
  ELSE IF ~o.auto_auth /\ o.reader = 0 THEN Guard(o, a)
  ELSE LET o1 == IF o.auto_auth THEN o
                 ELSE [o EXCEPT !.owed[o.reader] = Append(o.owed[o.reader], "AUTH")]
           r == read_reply([o1 EXCEPT !.pc[a] = "auth"], a)
       IN CASE r.out = "line" -> ConnectAuthRead(r.o, k, r.line)
            [] r.out = "wait" -> r.o
            [] OTHER -> Guard(r.o, a)

\* connect() once the previous reply loop has ended.
OverlapCheck(o, k) ==
  IF o.reader # 0
  THEN [o EXCEPT !.pc[Caller(k)] = "returned"]
  ELSE [o EXCEPT !.pc[Caller(k)] = "open"]

connection ==
  <<reader, writer, transport, inbox, sent, wire, klass, ws_remote, csc,
    read_level, write_level, reply, status_loop_task, poll, stop, mock, boot,
    index_gen, cmd, running_commands, reply_loop_task, waiter, life, status,
    log, nconnect, nlines, lost, served, dimm, meas, calls, weather>>

\* A task calls connect(): the reply loop is cancelled and awaited.
OverlapConnect ==
  /\ \E k \in Callers :
       /\ overlap.pc[Caller(k)] = "idle"
       /\ LET l == overlap.reply_loop_task
          IN overlap' =
               IF ReplyLoopDone(overlap, l) THEN OverlapCheck(overlap, k)
               ELSE [overlap EXCEPT !.must_cancel[Loop(l)] = TRUE,
                                    !.pc[Caller(k)] = "cancel_wait",
                                    !.aw[Caller(k)] = l]
  /\ UNCHANGED connection

\* The reply loop that connect() awaited has ended.
OverlapConnectResume ==
  /\ \E k \in Callers :
       /\ overlap.pc[Caller(k)] = "cancel_wait"
       /\ ReplyLoopDone(overlap, overlap.aw[Caller(k)])
       /\ overlap' = OverlapCheck(overlap, k)
  /\ UNCHANGED connection

\* open_connection returns to caller k: reader and writer are assigned and
\* the welcome line is awaited; the peer has a welcome line to write (and the
\* AUTH line with it when it authenticates by itself).
OverlapConnectOpen ==
  /\ \E k \in Callers :
       /\ overlap.pc[Caller(k)] = "open"
       /\ LET o1 == [overlap EXCEPT
                       !.reader = k,
                       !.pc[Caller(k)] = "welcome",
                       !.owed[k] = IF overlap.auto_auth THEN <<"TPL", "AUTH">>
                                   ELSE <<"TPL">>]
              r == read_reply(o1, Caller(k))
          IN overlap' = IF r.out = "wait" THEN r.o ELSE Guard(r.o, Caller(k))
  /\ UNCHANGED connection

\* The peer writes its next line on stream s; the task waiting there wakes.
OverlapPeerWrite ==
  /\ \E s \in Streams :
       /\ overlap.owed[s] # <<>>
       /\ ~overlap.closed[s]
       /\ overlap' =
            [overlap EXCEPT
               !.buffer[s] = Append(overlap.buffer[s], Head(overlap.owed[s])),
               !.owed[s] = Tail(overlap.owed[s]),
               !.woken = [t \in OverlapTasks |-> overlap.woken[t] \/ overlap.waiter[s] = t],
               !.waiter[s] = "none"]
  /\ UNCHANGED connection

\* A task woken in readuntil runs again: it looks at the buffer of the stream
\* it was reading and goes on from the line it gets.
OverlapResume ==
  /\ \E a \in OverlapTasks :
       /\ overlap.woken[a]
       /\ ~overlap.must_cancel[a]
       /\ LET r == ReadUntil([overlap EXCEPT !.woken[a] = FALSE], a, overlap.rd[a])
          IN overlap' =
               CASE r.out = "wait" -> r.o
                 [] r.out = "raise" -> Guard(r.o, a)
                 [] IsLoop(a) -> reply_loop(r.o, a)
                 [] overlap.pc[a] = "welcome" -> ConnectWelcomeRead(r.o, IndexOf(a), r.line)
                 [] OTHER -> ConnectAuthRead(r.o, IndexOf(a), r.line)
  /\ UNCHANGED connection

\* A reply loop task runs for the first time.
OverlapLoopStart ==
  /\ \E k \in Callers :
       /\ overlap.pc[Loop(k)] = "created"
       /\ ~overlap.must_cancel[Loop(k)]
       /\ overlap' = reply_loop(overlap, Loop(k))
  /\ UNCHANGED connection

\* A cancelled reply loop gets its CancelledError, in its read or before it
\* ever ran, and ends.
OverlapLoopCancelled ==
  /\ \E k \in Callers :
       /\ overlap.must_cancel[Loop(k)]
       /\ overlap.pc[Loop(k)] \in {"created", "reading"}
       /\ overlap' = LoopFinish(overlap, Loop(k))
  /\ UNCHANGED connection

\* disconnect() in the guard goes on: the reply loop it awaited has ended, or
\* the task was itself cancelled at that await, which disconnect() ignores.
OverlapGuardResume ==
  /\ \E a \in OverlapTasks :
       /\ overlap.pc[a] = "guard_wait"
       /\ ReplyLoopDone(overlap, overlap.aw[a]) \/ overlap.must_cancel[a]
       /\ overlap' = DisconnectRest(overlap, a)
  /\ UNCHANGED connection

\* ------------------------------------------------------------- specification
\* __init__: no rain and no snow; no precipitation callback was called.
NoWeather == [is_raining |-> FALSE, is_snowing |-> FALSE, callbacks |-> 0]

InitBase(w, k, m, ws, c) ==
  /\ ws_remote = ws
  /\ csc = c
  /\ reader = FALSE
  /\ writer = FALSE
  /\ transport = "none"
  /\ inbox = <<>>
  /\ sent = <<>>
  /\ wire = w
  /\ klass = k
  /\ read_level = None
  /\ write_level = None
  /\ reply = NoReply
  /\ status_loop_task = "none"
  /\ poll = NoPoll
  /\ stop = NotStopped
  /\ mock = m
  /\ boot = [k |-> 0, ix |-> 0]
  /\ index_gen = 0
  /\ cmd = <<>>
  /\ running_commands = <<>>
  /\ reply_loop_task = "none"
  /\ waiter = <<>>
  /\ life = "idle"
  /\ status = "NOTSET"
  /\ log = {}
  /\ nconnect = 0
  /\ nlines = 0
  /\ lost = {}
  /\ served = 0
  /\ meas = MeasIdle
  /\ calls = <<>>
  /\ weather = NoWeather

InitController(w, k, m, ws, c) ==
  /\ InitBase(w, k, m, ws, c)
  /\ overlap = NoOverlap
  /\ dimm = HealthyDimm

\* A controller used on its own, its ws_remote set by the application.
InitState(w, k, m) == InitController(w, k, m, TRUE, NoCsc)

Init == InitState(FALSE, "OpenTplConnection", NoMock)

Next ==
  \/ Connect
  \/ ConnectResume
  \/ ConnectOpen
  \/ ConnectWelcome
  \/ ConnectAuth
  \/ Disconnect
  \/ DisconnectResume
  \/ RunCommand
  \/ CallerGuardResume
  \/ CallerCancel
  \/ ReplyLoopLine
  \/ ReplyLoopReadFails
  \/ ReplyLoopGuardDisconnect
  \/ ReplyLoopEnd
  \/ PeerSend
  \/ PeerClose

Spec == Init /\ [][Next]_vars


\* The application connects once.
StartUp == nconnect = 0 /\ Connect

\* get_measurement() against an instrument that answers every GET.
InitMeas == InitState(TRUE, "AstelcoDIMM", NoMock)

NextMeas ==
  \/ StartUp
  \/ Disconnect
  \/ DisconnectResume
  \/ ConnectOpen
  \/ ConnectWelcome
  \/ ConnectAuth
  \/ GetMeasurement
  \/ GetMeasurementTimestamp
  \/ GetMeasurementSeeing
  \/ ReplyLoopLine
  \/ ReplyLoopEnd
  \/ InstrumentReply
  \/ InstrumentSample
  \/ StatusLoopEnd

SpecMeas == InitMeas /\ [][NextMeas]_vars

\* stop() on a controller that connected once, whatever the peer does.
InitStop == InitState(TRUE, "AstelcoDIMM", NoMock)

NextStop ==
  \/ StartUp
  \/ ConnectOpen
  \/ ConnectWelcome
  \/ ConnectAuth
  \/ Stop
  \/ StopSetDone
  \/ DisconnectResume
  \/ CallerGuardResume
  \/ StatusLoopPoll
  \/ StatusLoopRead
  \/ StatusLoopEnd
  \/ ReplyLoopLine
  \/ ReplyLoopReadFails
  \/ ReplyLoopGuardDisconnect
  \/ ReplyLoopEnd
  \/ PeerSend
  \/ PeerClose

SpecStop == InitStop /\ [][NextStop]_vars

\* connect(), disconnect() and run_command against a peer that accepts, stays
\* silent after the handshake and may close; the lines written are recorded.
InitConnect == InitState(TRUE, "OpenTplConnection", NoMock)

NextConnect ==
  \/ Connect
  \/ ConnectResume
  \/ ConnectOpen
  \/ ConnectWelcome
  \/ ConnectAuth
  \/ Disconnect
  \/ DisconnectResume
  \/ RunCommand
  \/ CallerGuardResume
  \/ CallerCancel
  \/ ReplyLoopReadFails
  \/ ReplyLoopGuardDisconnect
  \/ ReplyLoopEnd
  \/ PeerClose

SpecConnect == InitConnect /\ [][NextConnect]_vars

\* The event loop runs every task that is ready: the cancelled or failing
\* reply loop, and connect() / disconnect() / a guarded caller past its await.
FairSpecConnect ==
  /\ SpecConnect
  /\ WF_vars(ReplyLoopReadFails)
  /\ WF_vars(ReplyLoopGuardDisconnect)
  /\ WF_vars(ReplyLoopEnd)
  /\ WF_vars(CallerGuardResume)
  /\ WF_vars(DisconnectResume)
  /\ WF_vars(ConnectResume)

\* The mock server and a stream client.
InitMock ==
  \E r \in BOOLEAN : InitState(TRUE, "StreamClient", Mock(r))

NextMock ==
  \/ RawOpen
  \/ RawWrite
  \/ RawClose
  \/ MockAccept
  \/ MockCommand
  \/ MockConnectionLost
  \/ AutoLoopStart
  \/ AutoLoopSlewed
  \/ AutoLoopMeasured
  \/ AutoLoopEnd

SpecMock == InitMock /\ [][NextMock]_vars

\* A simulated controller: start() against the mock, then stop().
InitMockStop ==
  \E r \in BOOLEAN : InitState(TRUE, "AstelcoDIMM", Mock(r))

NextMockStop ==
  \/ StartUp
  \/ ConnectOpen
  \/ ConnectWelcome
  \/ ConnectAuth
  \/ StartStep
  \/ Stop
  \/ StopSetDone
  \/ DisconnectResume
  \/ StatusLoopPoll
  \/ StatusLoopRead
  \/ StatusLoopEnd
  \/ ReplyLoopLine
  \/ ReplyLoopEnd
  \/ MockAccept
  \/ MockCommand
  \/ AutoLoopStart
  \/ AutoLoopSlewed
  \/ AutoLoopMeasured
  \/ AutoLoopEnd

SpecMockStop == InitMockStop /\ [][NextMockStop]_vars

\* A task that was cancelled runs again: asyncio schedules its next step.
FairSpecMockStop == SpecMockStop /\ WF_vars(AutoLoopEnd)

\* start() called once on an AstelcoDIMM, with or without a weather-station
\* remote, in simulation mode against the mock or against the instrument.
InitStart ==
  \E ws \in BOOLEAN, m \in {NoMock, Mock(TRUE)} :
    InitController(TRUE, "AstelcoDIMM", m, ws, NoCsc)

NextStart ==
  \/ Start
  \/ StartEnd
  \/ ConnectOpen
  \/ ConnectWelcome
  \/ ConnectAuth
  \/ StartStep
  \/ StatusLoopPoll
  \/ StatusLoopRead
  \/ ReplyLoopLine
  \/ InstrumentReply
  \/ InstrumentAuto
  \/ MockAccept
  \/ MockCommand
  \/ AutoLoopStart
  \/ AutoLoopSlewed
  \/ AutoLoopMeasured

SpecStart == InitStart /\ [][NextStart]_vars

\* The CSC in simulation mode, as the unit tests run it: enabled once, against
\* the mock, which may be closed.  The mock's automatic loop is left out: it
\* changes the values GET reports, and DIMM.TIMESTAMP stays 0.0 without it.
InitCsc ==
  InitController(TRUE, "AstelcoDIMM", Mock(TRUE), TRUE, Csc("DISABLED"))

NextCscFault ==
  \/ CscEnable
  \/ CscEndEnable
  \/ ConnectOpen
  \/ ConnectWelcome
  \/ ConnectAuth
  \/ StartStep
  \/ CscStopSetDone
  \/ CscStopDisconnected
  \/ TelemetryLoopStart
  \/ TelemetryLoopPass
  \/ SeeingLoopStart
  \/ SeeingLoopPass
  \/ SeeingLoopTimestamp
  \/ HealthMonitorPass
  \/ HealthMonitorTelemetry
  \/ StatusLoopPoll
  \/ StatusLoopRead
  \/ StatusLoopEnd
  \/ CallerGuardResume
  \/ ReplyLoopLine
  \/ ReplyLoopReadFails
  \/ ReplyLoopGuardDisconnect
  \/ ReplyLoopEnd
  \/ MockAccept
  \/ MockCommand
  \/ MockClose

SpecCscFault == InitCsc /\ [][NextCscFault]_vars

\* The event loop runs every task that is ready or whose sleep is over: the
\* reply loop, the status loop, the task in start() or stop() whose command is
\* done, and the CSC's loops at each heartbeat.  The handshake reads are under
\* wait_for.  What the mock does is not forced.
FairSpecCscFault ==
  /\ SpecCscFault
  /\ WF_vars(ConnectOpen)
  /\ WF_vars(ConnectWelcome)
  /\ WF_vars(ConnectAuth)
  /\ WF_vars(StartStep)
  /\ WF_vars(CscEndEnable)
  /\ WF_vars(CscStopSetDone)
  /\ WF_vars(CscStopDisconnected)
  /\ WF_vars(TelemetryLoopStart)
  /\ WF_vars(TelemetryLoopPass)
  /\ WF_vars(SeeingLoopStart)
  /\ WF_vars(SeeingLoopTimestamp)
  /\ WF_vars(HealthMonitorPass)
  /\ WF_vars(HealthMonitorTelemetry)
  /\ WF_vars(StatusLoopRead)
  /\ WF_vars(StatusLoopEnd)
  /\ WF_vars(CallerGuardResume)
  /\ WF_vars(ReplyLoopLine)
  /\ WF_vars(ReplyLoopReadFails)
  /\ WF_vars(ReplyLoopGuardDisconnect)
  /\ WF_vars(ReplyLoopEnd)

\* The CSC enabled and disabled in simulation mode, the mock staying up and,
\* as in SpecCscFault, its auto loop left out.
NextCsc ==
  \/ CscEnable
  \/ CscEndEnable
  \/ CscDisable
  \/ CscEndDisable
  \/ ConnectOpen
  \/ ConnectWelcome
  \/ ConnectAuth
  \/ StartStep
  \/ CscStopSetDone
  \/ CscStopDisconnected
  \/ TelemetryLoopStart
  \/ TelemetryLoopPass
  \/ SeeingLoopStart
  \/ SeeingLoopPass
  \/ SeeingLoopTimestamp
  \/ HealthMonitorPass
  \/ HealthMonitorTelemetry
  \/ StatusLoopPoll
  \/ StatusLoopRead
  \/ StatusLoopEnd
  \/ ReplyLoopLine
  \/ ReplyLoopEnd
  \/ MockAccept
  \/ MockCommand

SpecCsc == InitCsc /\ [][NextCsc]_vars

\* The event loop runs every task that is ready: a step of the reply loop, of
\* a resumed caller or of connect()/disconnect() past its await is taken once
\* it can be.  The handshake reads are under wait_for and end by themselves.
\* Calls by the application and what the peer does are not forced.
FairSpec ==
  /\ Spec
  /\ WF_vars(ReplyLoopLine)
  /\ WF_vars(ReplyLoopReadFails)
  /\ WF_vars(ReplyLoopGuardDisconnect)
  /\ WF_vars(ReplyLoopEnd)
  /\ WF_vars(CallerGuardResume)
  /\ WF_vars(DisconnectResume)
  /\ WF_vars(ConnectResume)
  /\ WF_vars(ConnectOpen)
  /\ WF_vars(ConnectWelcome)
  /\ WF_vars(ConnectAuth)

TypeOK ==
  /\ reader \in BOOLEAN
  /\ reader = writer
  /\ (transport = "none") = ~connected
  /\ reply_loop_task = "reading" => connected
  /\ status_loop_task \in {"none", "sleeping", "polling", "guard", "cancelling",
                          "cancelled", "finished"}
  /\ klass = "OpenTplConnection" => status_loop_task = "none"
  /\ status_loop_task = "polling" => poll.ix \in Cmds
  /\ life = "stop_set" => stop.ix \in Cmds

\* ------------------------------------------------------------- properties
\* The task that called run_command(wait_done=True) is suspended on done_task.
Blocked(ix) == waiter[ix] = "waiting" /\ cmd[ix].done_task = "pending"

\* C1: a command's done_task is resolved at most once.  Once it holds a result,
\* a CommandError or a cancellation, no step (a later COMMAND COMPLETE or
\* COMMAND FAILED line for its id, the teardown of the reply loop) changes the
\* stored outcome, and no exception leaves the reply loop.
C1_ResolvedOnce ==
  [][ /\ \A ix \in Cmds :
           cmd[ix].done_task # "pending" => cmd'[ix].done_task = cmd[ix].done_task
      /\ reply_loop_task' # "failed" ]_vars

\* A late COMMAND line reached a command that was already resolved, and the
\* reply loop's teardown found another resolved command still registered.
C1_Witness ==
  /\ "already finished" \in log
  /\ reply_loop_task \in {"finished", "cancelled"}
  /\ \E ix \in Cmds :
       /\ cmd[ix].done_task = "cancelled"
       /\ cmd[ix].replies = <<>>
       /\ running_commands = <<>>

\* C2: if the peer closes or resets the stream while N >= 0 commands are
\* registered and unresolved, then the reply loop ends, each of the N commands
\* is resolved with a cancellation, running_commands is empty, the connection
\* is disconnected and no caller of run_command(wait_done=True) stays blocked.
C2_PeerCloseCleansUp ==
  (connected /\ transport \in {"eof", "reset"})
    ~> /\ TaskDone(reply_loop_task)
       /\ \A ix \in lost : cmd[ix].done_task \in CancellationOutcome
       /\ running_commands = <<>>
       /\ ~connected
       /\ \A ix \in Cmds : ~Blocked(ix)

\* C3: a reply line changes only the command whose id it carries.  Every other
\* command keeps its completion, data and replies and its place in
\* running_commands, the connection stays connected, and a registered pending
\* command is resolved by its own terminal line: COMPLETE gives a result,
\* FAILED a CommandError.
C3_LineTouchesOwnCommand ==
  [][ ReplyLoopLine =>
        LET line == Head(inbox) IN
        /\ connected'
        /\ reply_loop_task' = "reading"
        /\ \A ix \in Cmds :
             IF cmd[ix].id # line.id
             THEN /\ cmd'[ix] = cmd[ix]
                  /\ (ix \in Registered(running_commands))
                       = (ix \in Registered(running_commands'))
             ELSE (/\ ix \in Registered(running_commands)
                   /\ cmd[ix].done_task = "pending"
                   /\ line.kind = "COMMAND")
                  => cmd'[ix].done_task =
                       CASE line.name = "COMPLETE" -> "result"
                         [] line.name = "FAILED" -> "CommandError"
                         [] OTHER -> "pending" ]_vars

\* The later of two outstanding commands was failed by the peer while the
\* earlier one, which has had a reply of its own, is still pending.
C3_Witness ==
  /\ Len(cmd) = 2
  /\ cmd[2].done_task = "CommandError"
  /\ cmd[1].done_task = "pending"
  /\ Len(cmd[1].replies) = 1
  /\ 1 \in Registered(running_commands)
  /\ reply_loop_task = "reading"

\* C9: command ids are strictly increasing in creation order, so no two
\* commands share an id, whatever run_command, disconnect and connect calls
\* were made in between.
C9_IdsIncrease ==
  \A i, j \in Cmds : i < j => cmd[i].id < cmd[j].id

\* A command created on a connection whose reply loop has since been torn
\* down, and a second one registered on the connection made afterwards.
C9_Witness ==
  /\ Len(cmd) = 2
  /\ cmd[1].done_task = "CancelledError"
  /\ cmd[2].done_task = "pending"
  /\ 2 \in Registered(running_commands)
  /\ reply_loop_task = "reading"
  /\ nconnect = 2

\* C4: when the instrument reports the same DIMM.TIMESTAMP to two successive
\* get_measurement() calls, the second returns None: a measurement is returned
\* only when the timestamp differs from the one the previous call read.
C4_SameTimestampGivesNone ==
  \A k \in 2..Len(calls) :
    FloatEq(calls[k].timestamp, calls[k - 1].timestamp)
      => calls[k].returned = "None"

\* Two successive calls read the same timestamp and each returned a measurement.
C4_Repeated ==
  /\ Len(calls) = 2
  /\ FloatEq(calls[1].timestamp, calls[2].timestamp)
  /\ calls[1].returned = "measurement"
  /\ calls[2].returned = "measurement"

\* The last DATA line the command received for a variable (0: none).
LastData(c, var) ==
  LET at == {i \in 1..Len(c.replies) :
               /\ c.replies[i].kind \in {"DATA_ERROR", "DATA_INLINE"}
               /\ c.replies[i].name = var}
  IN IF at = {} THEN 0 ELSE CHOOSE i \in at : \A j \in at : j <= i

\* The peer reported the variable as failed: DATA ERROR, or DATA INLINE with
\* one of the error words.
ReportedFailed(c, var) ==
  /\ LastData(c, var) # 0
  /\ LET l == c.replies[LastData(c, var)] IN
       \/ l.kind = "DATA_ERROR"
       \/ l.kind = "DATA_INLINE" /\ l.val.w[1] \in BadDataReplies

\* The peer reported a number for the variable.
ReportedNumber(c, var) ==
  /\ LastData(c, var) # 0
  /\ LET l == c.replies[LastData(c, var)] IN
       l.kind = "DATA_INLINE" /\ l.val.w[1] \in DOMAIN FloatText

\* The number reported for the variable, as a float.
ReportedFloat(c, var) == F(FloatText[c.replies[LastData(c, var)].val.w[1]])

\* The command's last reply is COMMAND COMPLETE.
Completed(c) ==
  /\ c.replies # <<>>
  /\ c.replies[Len(c.replies)].kind = "COMMAND"
  /\ c.replies[Len(c.replies)].name = "COMPLETE"

\* The measurement key filled from a seeing variable.
KeyOf(m, var) ==
  CASE var = "DIMM.SEEING" -> m.fwhm
    [] var = "DIMM.AIRMASS" -> m.secz
    [] var = "DIMM.FLUX_LEFT" -> m.fluxL
    [] var = "DIMM.FLUX_RIGHT" -> m.fluxR
    [] var = "DIMM.STREHL_LEFT" -> m.strehlL
    [] var = "DIMM.STREHL_RIGHT" -> m.strehlR

\* C10: a GET answered with DATA ERROR or an error word for some variables,
\* numbers for the others and then COMMAND COMPLETE resolves with a result;
\* get_float and get_int give the sentinel for each failed variable and the
\* reported number for each other one; and get_measurement() whose seeing
\* command was answered so returns a measurement with every key, NaN exactly
\* under the keys of the failed variables.
C10_BadDataResilience ==
  /\ \A ix \in Cmds : Completed(cmd[ix]) =>
       /\ cmd[ix].done_task = "result"
       /\ \A v \in DimmVars :
            /\ ReportedFailed(cmd[ix], v) =>
                 /\ get_float(cmd[ix], v) = Got("", NaN)
                 /\ \A b \in {0, -1} : get_int(cmd[ix], v, b) = Got("", b)
            /\ ReportedNumber(cmd[ix], v) =>
                 get_float(cmd[ix], v) = Got("", ReportedFloat(cmd[ix], v))
  /\ \A k \in 1..Len(calls) :
       (calls[k].seeing # 0 /\ Completed(cmd[calls[k].seeing])) =>
         /\ calls[k].returned = "measurement"
         /\ \A v \in SeeingVarSet :
              LET c == cmd[calls[k].seeing] IN
              /\ ReportedFailed(c, v) => KeyOf(calls[k].measurement, v) = NaN
              /\ ReportedNumber(c, v) =>
                   KeyOf(calls[k].measurement, v) = ReportedFloat(c, v)

\* get_measurement() returned a measurement from a seeing command that had a
\* DATA ERROR for one variable, an error word for another and numbers for the
\* rest.
C10_Witness ==
  \E k \in 1..Len(calls) :
    /\ calls[k].returned = "measurement"
    /\ LET c == cmd[calls[k].seeing] IN
       /\ Completed(c)
       /\ \E v, u \in SeeingVarSet :
            /\ c.replies[LastData(c, v)].kind = "DATA_ERROR"
            /\ c.replies[LastData(c, u)].kind = "DATA_INLINE"
            /\ ReportedFailed(c, u)
       /\ \E v \in SeeingVarSet : ReportedNumber(c, v)

\* A handshake that timed out left the streams in place with no reply loop; a
\* caller then sent a command and the peer closed: nothing reads the stream.
C2_Stuck ==
  /\ connected
  /\ transport = "eof"
  /\ reply_loop_task = "none"
  /\ life = "idle"
  /\ lost = {1}
  /\ Blocked(1)

\* The terminal reply of command ix was received: a COMMAND COMPLETE or COMMAND
\* FAILED line resolved its done_task.
Terminal(ix) == cmd[ix].done_task \in {"result", "CommandError"}

\* The SET of stop() in what was written.
StopSet == ClientLine(cmd[stop.ix].id, "SET", <<SkyPrecipitating>>)

DisconnectAhead ==
  \E i, j \in 1..Len(sent) : i < j /\ sent[i] = DisconnectLine /\ sent[j] = StopSet

C7_StopSurvivesFailedSet ==
  (stop.ix # 0 /\ life = "idle" /\ AwaitOutcome(stop.ix) \in Raises)
    => /\ stop.raised = ""
       /\ ~connected
       /\ LoopsDone

\* stop() ended with the CommandError of its SET: the connection is up and
\* both loops go on.
C7_Raised ==
  /\ stop.raised = "CommandError"
  /\ life = "idle"
  /\ connected
  /\ reply_loop_task = "reading"
  /\ status_loop_task = "sleeping"

\* No AUTH PLAIN is among the lines the mock has read.
NoAuthYet ==
  \A k \in 1..served : ~(sent[k].verb = "AUTH" /\ sent[k].arg = <<"PLAIN">>)

\* C5: on a mock created with require_authentication=True, a GET or SET read
\* before any AUTH PLAIN is answered with exactly two lines, "<id> COMMAND
\* ERROR UNAUTHENTICATED" then "<id> COMMAND FAILED", and leaves the variable
\* tree and the automatic loop as they were.
C5_AuthGating ==
  [][ (/\ mock.require_authentication
       /\ NoAuthYet
       /\ served' = served + 1
       /\ sent[served + 1].verb \in {"GET", "SET"}
       /\ Dispatched(sent[served + 1]))
      => LET id == sent[served + 1].id
             answer == <<Line(id, "COMMAND", "ERROR", Val(FALSE, <<"UNAUTHENTICATED">>)),
                         Line(id, "COMMAND", "FAILED", NoVal)>>
         IN /\ Command(mock, sent[served + 1]).lines = answer
            /\ transport = "up" => inbox' = inbox \o answer
            /\ mock'.tree = mock.tree
            /\ mock'.auto_loop_task = mock.auto_loop_task ]_vars

\* A SET of good conditions and a GET were both refused: the answers follow
\* the welcome line, the tree is the initial one and no loop was created.
C5_Witness ==
  /\ mock.on
  /\ mock.require_authentication
  /\ ~mock.authenticated
  /\ served = 2
  /\ sent[1].verb = "SET" /\ sent[1].arg = GoodConditions
  /\ sent[2].verb = "GET"
  /\ transport = "up"
  /\ Len(inbox) = 5
  /\ inbox[5] = Line(2, "COMMAND", "FAILED", NoVal)
  /\ mock.tree = Tree0
  /\ mock.auto_loop_task = "done"

\* stop() was called on a connected controller and returned.
StopCompleted == stop.ix # 0 /\ life = "idle" /\ stop.raised = ""

\* The automatic loop exists and was not cancelled.
Operating == mock.auto_loop_task \in {"created", "slewing", "measuring"}

Parked ==
  /\ mock.auto_loop_task = "done"
  /\ mock.tree["SCOPE.MOTION_STATE"] = -1
  /\ mock.tree["SCOPE.POWER_STATE"] = 0
  /\ mock.tree["DOME.POWER_STATE"] = 0
  /\ \A v \in {"SCOPE.RA", "SCOPE.DEC", "SCOPE.AZ", "SCOPE.ALT"} : mock.tree[v] = 0

\* C8: once stop() has completed against the mock, the mock's automatic loop
\* is cancelled, and the simulated scope and dome end parked (motion state and
\* power states PARKED, the scope at its parked position); the session is
\* never closed, by either side, while the loop is operating.
C8_StopParksMock ==
  /\ [](StopCompleted => ~Operating)
  /\ (StopCompleted ~> Parked)
  /\ []((~connected \/ mock.session = "none") => ~Operating)

\* stop() completed after the loop had made a measurement, and the loop has
\* ended with the scope and the dome parked.
C8_Witness ==
  /\ mock.on
  /\ StopCompleted
  /\ mock.tree["DIMM.TIMESTAMP"] = 25
  /\ mock.session = "none"
  /\ Parked

\* ------------------------------------------------------------ C11
\* The mock answers line k of the client as an authenticated session.
AuthBefore(k) ==
  \/ ~mock.require_authentication
  \/ \E j \in 1..(k - 1) : sent[j] = ClientLine(0, "AUTH", <<"PLAIN">>)

\* The pairs of SET line k that name variable v.
PairsFor(k, v) ==
  {p \in 1..Len(sent[k].arg) :
     Len(sent[k].arg[p]) = 2 /\ Fold(sent[k].arg[p][1]) = v}

\* The authenticated SET lines read so far that name variable v.
SetsOf(v) ==
  {k \in 1..served :
     sent[k].verb = "SET" /\ AuthBefore(k) /\ PairsFor(k, v) # {}}

Max(S) == CHOOSE n \in S : \A o \in S : o <= n

\* The text of value x in wire format: a float as Python prints it, an enum
\* as its integer, a string in double quotes.
WireFormat(v, x) ==
  IF Cell(v) \in FloatFields
  THEN CHOOSE t \in DOMAIN FloatText : FloatText[t] = float(Val(FALSE, <<x>>)).val.v
  ELSE x

\* C11: when the mock answers an authenticated GET of a variable v whose last
\* SET was answered with DATA OK for a valid value x, the DATA INLINE line for
\* v carries x in wire format (a string in double quotes, an enum as its
\* integer).
C11_SetGetRoundTrip ==
  [][ (/\ served' = served + 1
       /\ sent[served + 1].verb = "GET"
       /\ AuthBefore(served + 1))
      => LET l == sent[served + 1]
         IN \A i \in 1..Len(l.arg) :
              LET v == Fold(l.arg[i])
              IN SetsOf(v) # {} =>
                   LET k == Max(SetsOf(v))
                       x == sent[k].arg[Max(PairsFor(k, v))][2]
                   IN ~set_field(Tree0, v, x).raised =>
                        Command(mock, l).lines[i + 1] =
                          Line(l.id, "DATA_INLINE", l.arg[i],
                               Val(FALSE, <<WireFormat(v, x)>>)) ]_vars

\* SET SCOPE.SERVICE.CONTROL=1, then SET AMEBA.SERVICE.CONTROL=2, then GET
\* SCOPE.SERVICE.CONTROL: the mock reports 2.
C11_Aliased ==
  /\ served = 3
  /\ ~mock.require_authentication
  /\ sent[1].verb = "SET" /\ sent[1].arg[1] = <<"SCOPE.SERVICE.CONTROL", "1">>
  /\ sent[2].verb = "SET" /\ sent[2].arg[1] = <<"AMEBA.SERVICE.CONTROL", "2">>
  /\ sent[3].verb = "GET" /\ sent[3].arg[1] = "SCOPE.SERVICE.CONTROL"
  /\ transport = "up"
  /\ Len(inbox) = 14
  /\ inbox[11] = Line(3, "DATA_INLINE", "SCOPE.SERVICE.CONTROL", Val(FALSE, <<"2">>))
  /\ inbox[12] = Line(3, "DATA_INLINE", "AMEBA.MANUAL.NAME", Val(FALSE, <<"\"a b\"">>))

\* ------------------------------------------------------------ C12
\* The mock has handled an authenticated SET.
SetHandled ==
  \E k \in 1..served : sent[k].verb = "SET" /\ AuthBefore(k)

\* The automatic-operation loop is running (or created and about to run).
AutoLoopRunning == mock.auto_loop_task \in {"created", "slewing", "measuring"}

\* No cancellation of the automatic loop is still pending.
CancelSettled == mock.auto_loop_task \notin {"cancelling", "dropping"}

\* C12: once an authenticated SET has been handled and any cancellation it
\* requested has taken effect, the automatic-operation loop is running if and
\* only if AMEBA.MODE is AUTO and can_open() holds.
C12_LoopFollowsConditions ==
  (SetHandled /\ CancelSettled)
    => (AutoLoopRunning <=> (mock.tree["AMEBA.MODE"] = 1 /\ can_open(mock.tree)))

\* Good conditions, then a precipitating sky, then a clear sky again before
\* the cancelled loop ended: the loop has ended and was not started again.
C12_NotRestarted ==
  /\ served = 3
  /\ SetHandled
  /\ \A k \in 1..3 : sent[k].verb = "SET"
  /\ sent[1].arg = GoodConditions
  /\ sent[2].arg = <<SkyPrecipitating>>
  /\ sent[3].arg = GoodConditions
  /\ mock.auto_loop_task = "done"
  /\ mock.tree["AMEBA.MODE"] = 1
  /\ can_open(mock.tree)
  /\ mock.tree["SCOPE.MOTION_STATE"] = -1

\* ------------------------------------------------------------ C13
\* connect() has opened the stream and has not finished the handshake.
InHandshake == life \in {"connect_welcome", "connect_auth"}

\* C13: while connect() is between opening the stream and finishing the
\* handshake, run_command of another task does not get past its `connected`
\* check: no command is created and no command line is written.
C13_NoCommandDuringHandshake ==
  [][ InHandshake => (Len(cmd') = Len(cmd) /\ Len(sent') <= Len(sent) + 1
                      /\ (Len(sent') = Len(sent) + 1
                            => sent'[Len(sent')].verb = "AUTH")) ]_vars

\* During the first connect(), before the handshake ended, a GET of another
\* task is on the socket.
C13_WrittenDuringHandshake ==
  /\ InHandshake
  /\ nconnect = 1
  /\ Len(cmd) = 1
  /\ sent # <<>>
  /\ sent[Len(sent)] = ClientLine(cmd[1].id, "GET", <<"X">>)

\* ------------------------------------------------------------ C14
\* connect() ends by raising: it leaves one of its awaits without having
\* started the reply loop.
ConnectRaises ==
  /\ life \in {"connect_open", "connect_welcome", "connect_auth"}
  /\ life' = "idle"
  /\ reply_loop_task' # "reading"

\* C14: whenever connect() raises, the connection ends disconnected: reader
\* and writer are both absent and no reply loop is running.
C14_RaiseLeavesDisconnected ==
  [][ ConnectRaises => (/\ reader' = FALSE
                        /\ writer' = FALSE
                        /\ TaskDone(reply_loop_task')) ]_vars

\* The first connect() gave up on a handshake read of a live stream: it has
\* ended, the streams are still set and nothing reads them.
C14_StreamsLeft ==
  /\ life = "idle"
  /\ nconnect = 1
  /\ cmd = <<>>
  /\ reader /\ writer
  /\ transport = "up"
  /\ reply_loop_task = "none"

\* ------------------------------------------------------------ C15
\* connect() read, as the reply to AUTH, a line that is not "AUTH OK <read
\* level> <write level>".
AuthRefused ==
  /\ life = "connect_auth"
  /\ reply = NoReply
  /\ reply' # NoReply
  /\ ~(search(reply').matched /\ search(reply').AUTH = "OK")

\* C15: when the reply to AUTH is not an AUTH OK line with both levels,
\* connect() disconnects and raises: the connection is disconnected,
\* read_level and write_level keep their values, no reply loop is started and
\* no second AUTH line is written.
C15_RefusedAuthDisconnects ==
  [][ AuthRefused => (/\ life' = "idle"
                      /\ reader' = FALSE
                      /\ writer' = FALSE
                      /\ read_level' = read_level
                      /\ write_level' = write_level
                      /\ reply_loop_task' = reply_loop_task
                      /\ TaskDone(reply_loop_task')
                      /\ sent' = Append(sent, DisconnectLine)) ]_vars

\* After a connect() that was authorized with levels 1 and 1 and a
\* disconnect(), a second connect() was answered AUTH FAILED 0 0: the
\* connection is disconnected and the levels are still 1 and 1.
C15_Witness ==
  /\ nconnect = 2
  /\ life = "idle"
  /\ reply = Line(0, "AUTH", "FAILED", Val(FALSE, <<"0", "0">>))
  /\ ~connected
  /\ read_level = 1
  /\ write_level = 1
  /\ sent # <<>>
  /\ sent[Len(sent)] = DisconnectLine

\* ------------------------------------------------------------ C16
\* disconnect() returns to the lifecycle task.
DisconnectReturns ==
  /\ Disconnect \/ DisconnectResume
  /\ life' = "idle"

\* C16: disconnect() ends from every connection state: called by a task, it
\* returns with reader and writer absent and the reply loop finished, also
\* when the write of DISCONNECT fails; run by the connection guard inside the
\* reply loop, it leaves reader and writer absent and the loop then ends.
C16_DisconnectTerminates ==
  /\ [][ DisconnectReturns => (/\ reader' = FALSE
                               /\ writer' = FALSE
                               /\ TaskDone(reply_loop_task')) ]_vars
  /\ [][ ReplyLoopGuardDisconnect => (reader' = FALSE /\ writer' = FALSE) ]_vars
  /\ (life = "disconnect_await") ~> (life = "idle")
  /\ (reply_loop_task \in {"guard", "closing"}) ~> TaskDone(reply_loop_task)

\* disconnect() returned on a connection that was reset: the write of
\* DISCONNECT failed and was logged, the reply loop it cancelled has ended and
\* the streams are gone.
C16_Witness ==
  /\ life = "idle"
  /\ nconnect = 1
  /\ "Error trying to disconnect" \in log
  /\ reply_loop_task = "cancelled"
  /\ ~connected
  /\ sent # <<>>
  /\ sent[Len(sent)] = DisconnectLine

\* ------------------------------------------------------------- C17
\* A task of the CSC is in controller.stop(): a fault() or a disable is under
\* way.
Stopping == \E t \in Tasks : csc.task[t].pc \in {"stop_set", "stop_disconnect"}

\* The CSC is ENABLED and stays so as far as it knows: its two loops run, the
\* controller reports RUNNING and nothing is stopping it.
EnabledAndRunning ==
  /\ csc.summary_state = "ENABLED"
  /\ csc.telemetry_loop_running
  /\ csc.seeing_loop_running
  /\ status = "RUNNING"
  /\ ~Stopping

\* The mock was closed under the enabled CSC.
ClosedWhileEnabled == mock.closed /\ connected /\ EnabledAndRunning

\* C17: when the mock controller is closed while the CSC is ENABLED and the
\* controller is running, the controller's status becomes ERROR, and the CSC
\* goes to FAULT with the controller not connected, for good.
C17_PeerCloseFaultsCsc ==
  /\ ClosedWhileEnabled ~> (status = "ERROR")
  /\ ClosedWhileEnabled ~>
       [](csc.summary_state = "FAULT" /\ ~connected)

\* The telemetry loop and the health monitor both called stop() while the
\* reply loop's guard still held the streams; the reply loop's teardown ended
\* both SETs with CancelledError, which fault() does not catch: the telemetry
\* loop swallowed it and the health monitor died of it.  The CSC stays ENABLED.
C17_StuckEnabled ==
  /\ mock.closed
  /\ csc.summary_state = "ENABLED"
  /\ ~connected
  /\ status = "INITIALIZED"
  /\ csc.task["health_monitor"].pc = "done"
  /\ csc.task["telemetry_loop"].pc = "done"
  /\ csc.task["seeing_loop"].pc = "done"
  /\ csc.task["handler"].pc = "idle"
  /\ TaskDone(reply_loop_task)
  /\ TaskDone(status_loop_task)

\* ------------------------------------------------------------ C18
\* do_disable changed the summary state: ENABLED before begin_disable(),
\* DISABLED after it.
LeavesEnabled ==
  /\ csc.task["handler"].call = "begin_disable"
  /\ csc.summary_state # "DISABLED"
  /\ csc'.summary_state = "DISABLED"

\* controller.set_automation_mode(mode) has been awaited.
AwaitedWith(c, mode) ==
  \E i \in 1..Len(c.set_automation_mode) : c.set_automation_mode[i] = mode

\* C18: when the CSC leaves the ENABLED state through disable,
\* set_automation_mode(AutomationMode.OFF) has been awaited on the controller;
\* becoming or staying ENABLED awaits it with no mode.
C18_AutomationOffOnDisable ==
  [][ /\ LeavesEnabled => AwaitedWith(csc', "OFF")
      /\ csc'.summary_state = "ENABLED" => csc'.set_automation_mode = <<>> ]_vars

\* The CSC was enabled with its loops running and is DISABLED again, the
\* controller stopped, and set_automation_mode was never awaited.
C18_DisabledNotOff ==
  /\ csc.summary_state = "DISABLED"
  /\ nconnect = 1
  /\ csc.task["handler"].pc = "idle"
  /\ csc.task["telemetry_loop"].pc = "done"
  /\ csc.task["seeing_loop"].pc = "done"
  /\ ~connected
  /\ ~AwaitedWith(csc, "OFF")

\* ------------------------------------------------------------ C19
\* start() was called on a controller whose ws_remote is None.
StartedWithoutWeather == ~ws_remote /\ nconnect > 0

\* A SET of SKY.TEMP or SKY.status is among the lines written.
SkySetSent ==
  \E k \in 1..Len(sent) :
    /\ sent[k].verb = "SET"
    /\ \E n \in 1..Len(sent[k].arg) : sent[k].arg[n][1] \in {"SKY.TEMP", "SKY.status"}

\* start() is over and it raised.
StartRaised ==
  csc.task["handler"].pc = "idle" /\ csc.task["handler"].call = "raised"

\* C19: start() on an AstelcoDIMM whose ws_remote is None raises and leaves
\* the status ERROR, no SET of SKY.TEMP or SKY.status is written, and the
\* status is never INITIALIZED or RUNNING from that start() on.
C19_StartWithoutWeatherFails ==
  StartedWithoutWeather =>
    /\ csc.task["handler"].pc = "idle" =>
         csc.task["handler"].call = "raised" /\ status = "ERROR"
    /\ ~SkySetSent
    /\ status \notin {"INITIALIZED", "RUNNING"}

\* start() raised for the missing ws_remote, the connection it opened to the
\* instrument is still up with the reply loop and the status loop running, and
\* the status loop has made the status RUNNING.
C19_RunningAfterRaise ==
  /\ StartedWithoutWeather
  /\ StartRaised
  /\ connected
  /\ reply_loop_task = "reading"
  /\ status_loop_task = "sleeping"
  /\ ~SkySetSent
  /\ status = "RUNNING"

\* ------------------------------------------------------------ C20
\* The mock, authenticated, reads a GET on a stream the client holds.
GetHandled ==
  /\ mock.on
  /\ mock.authenticated
  /\ transport = "up"
  /\ served' = served + 1
  /\ sent[served + 1].verb = "GET"
  /\ Dispatched(sent[served + 1])

\* The lines a step added to what the client can read.
Written == SubSeq(inbox', Len(inbox) + 1, Len(inbox'))

\* The sub-request cannot be served: no such variable, or a property other
\* than the type.
Unserved(varname_property) ==
  \/ ~HasField(mock, partition(varname_property)[1])
  \/ lower(partition(varname_property)[2]) \notin {"", "type"}

\* C20: for an authenticated GET with n sub-requests the mock writes exactly
\* n+2 lines with the id of the command: COMMAND OK, then one DATA line per
\* sub-request in request order (DATA ERROR for a nonexistent variable or an
\* unsupported property, DATA INLINE otherwise), then COMMAND COMPLETE; no
\* line is COMMAND FAILED and no variable changes.
C20_GetReplies ==
  [][ GetHandled =>
        LET l == sent[served + 1]
            n == Len(l.arg)
        IN /\ Len(Written) = n + 2
           /\ \A k \in 1..(n + 2) : Written[k].id = l.id
           /\ Written[1] = Line(l.id, "COMMAND", "OK", NoVal)
           /\ \A k \in 1..n :
                /\ Written[k + 1].kind =
                     IF Unserved(l.arg[k]) THEN "DATA_ERROR" ELSE "DATA_INLINE"
                /\ Written[k + 1].name \in
                     {upper(l.arg[k]), upper(partition(l.arg[k])[1])}
           /\ Written[n + 2] = Line(l.id, "COMMAND", "COMPLETE", NoVal)
           /\ \A k \in 1..(n + 2) :
                ~(Written[k].kind = "COMMAND" /\ Written[k].name = "FAILED")
           /\ mock'.tree = mock.tree ]_vars

\* The mock has answered GET WEATHER.RAIN;WEATHER.RAIN!TYPE;NO.SUCH.VARIABLE;
\* SKY.TEMP!UNITS, the first line of the client: after the welcome line come
\* COMMAND OK, the two values, two DATA ERROR lines and COMMAND COMPLETE.
C20_Witness ==
  /\ mock.on /\ ~mock.require_authentication
  /\ transport = "up"
  /\ served = 1
  /\ sent[1] = ClientLine(1, "GET", <<"WEATHER.RAIN", "WEATHER.RAIN!TYPE",
                                     "NO.SUCH.VARIABLE", "SKY.TEMP!UNITS">>)
  /\ Len(inbox) = 7
  /\ inbox[2] = Line(1, "COMMAND", "OK", NoVal)
  /\ inbox[3] = Line(1, "DATA_INLINE", "WEATHER.RAIN", Val(FALSE, <<"1">>))
  /\ inbox[4] = Line(1, "DATA_INLINE", "WEATHER.RAIN!TYPE", Val(FALSE, <<"1">>))
  /\ inbox[5] = Line(1, "DATA_ERROR", "NO.SUCH.VARIABLE", ErrorValue)
  /\ inbox[6] = Line(1, "DATA_ERROR", "SKY.TEMP", ErrorValue)
  /\ inbox[7] = Line(1, "COMMAND", "COMPLETE", NoVal)
  /\ mock.tree = Tree0

\* ------------------------------------------------------------ C21
\* The mock, authenticated, reads a SET on a stream the client holds.
SetHandledNow ==
  /\ mock.on
  /\ mock.authenticated
  /\ transport = "up"
  /\ served' = served + 1
  /\ sent[served + 1].verb = "SET"

\* C21: for an authenticated SET whose argument has n parts, whatever they
\* hold, the mock writes exactly n+2 lines with the id of the command:
\* COMMAND OK, one DATA OK or DATA ERROR per part in order, COMMAND COMPLETE;
\* then the automatic loop is started or cancelled as AMEBA.MODE and
\* can_open() say.
C21_SetReplies ==
  [][ SetHandledNow =>
        LET l == sent[served + 1]
            n == Len(l.arg)
        IN /\ Len(Written) = n + 2
           /\ \A k \in 1..(n + 2) : Written[k].id = l.id
           /\ Written[1] = Line(l.id, "COMMAND", "OK", NoVal)
           /\ \A k \in 1..n :
                /\ Written[k + 1].kind \in {"DATA_OK", "DATA_ERROR"}
                /\ Written[k + 1].name = l.arg[k][1]
           /\ Written[n + 2] = Line(l.id, "COMMAND", "COMPLETE", NoVal)
           /\ mock'.auto_loop_task =
                IF mock'.tree["AMEBA.MODE"] = 1 /\ can_open(mock'.tree)
                THEN IF mock.auto_loop_task = "done" THEN "created"
                     ELSE mock.auto_loop_task
                ELSE CancelAuto(mock.auto_loop_task) ]_vars

\* The mock has answered SET WEATHER.RAIN=0;SKY.TEMP;AMEBA.MODE=0, the first
\* line of the client: COMMAND OK, DATA OK for WEATHER.RAIN, then COMMAND
\* FAILED; the rain is set, AMEBA.MODE is not.
C21_MalformedPairFails ==
  /\ mock.on /\ ~mock.require_authentication
  /\ transport = "up"
  /\ served = 1
  /\ sent[1] = ClientLine(1, "SET", << <<"WEATHER.RAIN", "0">>, <<"SKY.TEMP">>,
                                     <<"AMEBA.MODE", "0">> >>)
  /\ Len(inbox) = 4
  /\ inbox[2] = Line(1, "COMMAND", "OK", NoVal)
  /\ inbox[3] = Line(1, "DATA_OK", "WEATHER.RAIN", NoVal)
  /\ inbox[4] = Line(1, "COMMAND", "FAILED", NoVal)
  /\ mock.tree["WEATHER.RAIN"] = 0
  /\ mock.tree["AMEBA.MODE"] = 1

\* ------------------------------------------------------------ C22
\* The mock reads, on a stream the client holds, a line that none of its
\* command patterns matches.
UnknownHandled ==
  /\ mock.on
  /\ transport = "up"
  /\ served' = served + 1
  /\ ~Dispatched(sent[served + 1])

\* C22: a line that matches none of the mock's command shapes is answered
\* with exactly two lines, COMMAND ERROR UNKNOWN and COMMAND FAILED, under the
\* id of the line (0 without a leading number); the variable tree, the
\* authenticated flag and the automatic loop are unchanged and the command
\* loop goes on reading.
C22_UnknownCommand ==
  [][ UnknownHandled =>
        LET id == sent[served + 1].id
        IN /\ Written = <<Line(id, "COMMAND", "ERROR", Val(FALSE, <<"UNKNOWN">>)),
                          Line(id, "COMMAND", "FAILED", NoVal)>>
           /\ mock'.tree = mock.tree
           /\ mock'.authenticated = mock.authenticated
           /\ mock'.auto_loop_task = mock.auto_loop_task
           /\ mock'.session = "open" ]_vars

\* A mock that requires authentication has answered a numbered AUTH line, an
\* unnumbered GET and then a numbered GET: two lines for each of the first
\* two, under the ids 1 and 0, and it is still not authenticated when it
\* answers the third.
C22_Witness ==
  /\ mock.on /\ mock.require_authentication /\ ~mock.authenticated
  /\ mock.session = "open"
  /\ transport = "up"
  /\ served = 3
  /\ sent[1] = ClientLine(1, "AUTH", <<"PLAIN">>)
  /\ sent[2] = ClientLine(0, "GET", <<"SKY.TEMP">>)
  /\ sent[3].verb = "GET" /\ sent[3].id = 3
  /\ Len(inbox) = 7
  /\ inbox[2] = Line(1, "COMMAND", "ERROR", Val(FALSE, <<"UNKNOWN">>))
  /\ inbox[3] = Line(1, "COMMAND", "FAILED", NoVal)
  /\ inbox[4] = Line(0, "COMMAND", "ERROR", Val(FALSE, <<"UNKNOWN">>))
  /\ inbox[5] = Line(0, "COMMAND", "FAILED", NoVal)
  /\ inbox[6] = Line(3, "COMMAND", "ERROR", Val(FALSE, <<"UNAUTHENTICATED">>))

\* ------------------------------------------------------------ C23
\* C23 as stated: while the reply loop waits for the next line, a command is
\* in running_commands if and only if its done_task is unresolved.
C23_RegisteredIffPending ==
  reply_loop_task = "reading" =>
    \A ix \in Cmds :
      (ix \in Registered(running_commands)) <=> (cmd[ix].done_task = "pending")

\* The reply loop processes a line that resolves a registered command.
ResolvedByLine(ix) ==
  /\ reply_loop_task = "reading"
  /\ inbox # <<>>
  /\ inbox' = Tail(inbox)
  /\ cmd[ix].done_task = "pending"
  /\ cmd'[ix].done_task \in {"result", "CommandError"}

\* C23 (amended): while the reply loop waits for the next line, every pending
\* command is registered and every registered command is pending or was
\* cancelled together with the task that awaited it; a command that a reply
\* line resolves is removed in that dispatch step, and a command that holds a
\* result or an exception is never modified again.
C23_RegistryTracksPending ==
  [][ /\ reply_loop_task' = "reading" =>
           \A ix \in 1..Len(cmd') :
             /\ (cmd'[ix].done_task = "pending")
                  => (ix \in Registered(running_commands'))
             /\ (ix \in Registered(running_commands'))
                  => (cmd'[ix].done_task \in {"pending", "cancelled"})
      /\ \A ix \in Cmds :
           /\ ResolvedByLine(ix) => ix \notin Registered(running_commands')
           /\ (cmd[ix].done_task \notin {"pending", "cancelled"})
                => (cmd'[ix] = cmd[ix]) ]_vars

\* Two commands were registered; a reply line has resolved the first, which
\* is gone from the registry, and the second is still pending and registered
\* while the reply loop waits for the next line.
C23_Witness ==
  /\ reply_loop_task = "reading"
  /\ Len(cmd) = 2
  /\ cmd[1].done_task \in {"result", "CommandError"}
  /\ cmd[1].replies # <<>>
  /\ cmd[2].done_task = "pending"
  /\ Registered(running_commands) = {2}

\* ------------------------------------------------------------ C24
\* The reply loop takes the line at the head of the stream, routes it to the
\* registered and pending command ix, and goes on reading.
LineFor(ix) ==
  /\ reply_loop_task = "reading" /\ reply_loop_task' = "reading"
  /\ inbox # <<>>
  /\ inbox' = Tail(inbox)
  /\ Lookup(running_commands, Head(inbox)) = ix
  /\ cmd[ix].done_task = "pending"

TerminalLine(l) == l.kind = "COMMAND" /\ l.name \in {"COMPLETE", "FAILED"}

\* C24: a line for a registered, pending command that is not COMMAND COMPLETE
\* or COMMAND FAILED leaves the command pending and registered (and is
\* appended to its replies); COMMAND COMPLETE resolves it with the result
\* None, COMMAND FAILED with CommandError, and either removes it from
\* running_commands in that step.
C24_ResolvedByTerminalLineOnly ==
  [][ \A ix \in Cmds :
        LineFor(ix) =>
          LET l == Head(inbox) IN
          /\ cmd'[ix].replies = Append(cmd[ix].replies, l)
          /\ ~TerminalLine(l) =>
               /\ cmd'[ix].done_task = "pending"
               /\ ix \in Registered(running_commands')
          /\ TerminalLine(l) =>
               /\ cmd'[ix].done_task =
                    (IF l.name = "COMPLETE" THEN "result" ELSE "CommandError")
               /\ ix \notin Registered(running_commands') ]_vars

\* A command has received two non-terminal lines, COMMAND OK among them, and
\* is still pending and registered.
C24_Witness ==
  /\ reply_loop_task = "reading"
  /\ \E ix \in Cmds :
       /\ Len(cmd[ix].replies) = 2
       /\ \E k \in 1..2 : cmd[ix].replies[k] = Line(cmd[ix].id, "COMMAND", "OK", NoVal)
       /\ \A k \in 1..2 : ~TerminalLine(cmd[ix].replies[k])
       /\ cmd[ix].done_task = "pending"
       /\ ix \in Registered(running_commands)

\* ------------------------------------------------------------ C25
\* The line matches no reply pattern, or no registered command has its id.
Unrouted(l) ==
  \/ l.kind = "OTHER"
  \/ \A i \in 1..Len(running_commands) : running_commands[i].id # l.id

\* C25: a line that matches no reply pattern, or whose id is not in
\* running_commands (a late line for a resolved command, an unsolicited line
\* with id 0), changes no command and not the registry, and the reply loop
\* goes on reading on a connection that stays connected.
C25_UnroutedLineIgnored ==
  [][ (ReplyLoopLine /\ Unrouted(Head(inbox))) =>
        /\ cmd' = cmd
        /\ running_commands' = running_commands
        /\ reply_loop_task' = "reading"
        /\ connected' ]_vars

\* The peer wrote two lines and the reply loop has read both: one resolved
\* the only command, the other was not routed to it (it came first and had
\* another id or no pattern, or it came after the command was resolved).
C25_Witness ==
  /\ reply_loop_task = "reading"
  /\ nlines = 2
  /\ inbox = <<>>
  /\ Len(cmd) = 1
  /\ cmd[1].done_task = "result"
  /\ cmd[1].replies = <<Line(1, "COMMAND", "COMPLETE", NoVal)>>
  /\ running_commands = <<>>

\* ------------------------------------------------------------ C26
\* self.cmd_max_size, set in __init__.
cmd_max_size == 100

\* run_command(wait_done=False): the caller does not await the reply.
RunCommandNoWait ==
  /\ Len(cmd) < MaxNoWait
  /\ RunCommandStep("GET", <<"X">>, FALSE, "caller")
  /\ UNCHANGED <<life, nconnect, nlines, lost, served, other>>

\* A connection to a peer that completes the handshake and never replies
\* afterwards; the application issues commands without waiting for them.
NextNoReply ==
  \/ StartUp
  \/ ConnectOpen
  \/ ConnectWelcome
  \/ ConnectAuth
  \/ RunCommandNoWait

SpecNoReply == Init /\ [][NextNoReply]_vars

\* C26: running_commands never holds more than cmd_max_size commands.
C26_RegistryBounded == Len(running_commands) <= cmd_max_size

\* The application has issued cmd_max_size + 1 commands to a silent peer and
\* every one of them is registered and pending, the oldest included.
C26_RegistryOverfull ==
  /\ Len(cmd) = cmd_max_size + 1
  /\ Len(running_commands) = cmd_max_size + 1
  /\ running_commands[1] = Reg(1, 1)
  /\ \A ix \in Cmds : cmd[ix].done_task = "pending"

\* ------------------------------------------------------------ C27
\* The handlers applied, in order, to the lines of a command's replies.
RECURSIVE Replayed(_, _)
Replayed(c, lines) ==
  IF lines = <<>> THEN c
  ELSE Replayed(Handler(c, Head(lines)).c, Tail(lines))

\* command.data is what the DATA lines in replies give, applied in order.
DataApplied(c) ==
  c.data = Replayed([c EXCEPT !.data = <<>>, !.done_task = "pending"],
                    c.replies).data

\* A command resolved by a reply has that terminal COMMAND line last.
TerminalLast(c) ==
  c.done_task \in {"result", "CommandError"} =>
    /\ c.replies # <<>>
    /\ LET l == c.replies[Len(c.replies)]
       IN /\ l.kind = "COMMAND" /\ l.id = c.id
          /\ l.name = (IF c.done_task = "result" THEN "COMPLETE" ELSE "FAILED")

\* C27: replies is append-only and grows only by the line the reply loop has
\* just read, when that line is recognised, carries the command's id and the
\* command is registered (so replies holds those lines in wire order); a
\* command resolved by a reply has its terminal COMMAND line as the last
\* element of replies, and at every moment from its resolution on, so when
\* the caller of run_command resumes, its data holds what its DATA lines say.
C27_RepliesInWireOrder ==
  [][ /\ Len(cmd') >= Len(cmd)
      /\ \A ix \in Cmds :
           \/ cmd'[ix].replies = cmd[ix].replies
           \/ /\ ReplyLoopLine
              /\ Head(inbox).kind # "OTHER"
              /\ Head(inbox).id = cmd[ix].id
              /\ ix \in Registered(running_commands)
              /\ cmd'[ix].replies = Append(cmd[ix].replies, Head(inbox))
      /\ \A ix \in Cmds :
           (/\ ReplyLoopLine
            /\ Head(inbox).kind # "OTHER"
            /\ Head(inbox).id = cmd[ix].id
            /\ ix \in Registered(running_commands))
              => cmd'[ix].replies = Append(cmd[ix].replies, Head(inbox))
      /\ \A ix \in 1..Len(cmd') :
           TerminalLast(cmd'[ix]) /\ DataApplied(cmd'[ix]) ]_vars

\* get_measurement() has returned a measurement: its second command received
\* COMMAND OK, one DATA INLINE line for each seeing variable in the order they
\* were asked for, then COMMAND COMPLETE as its last reply, and its data holds
\* every one of the variables.
C27_Witness ==
  /\ meas.pc = "idle"
  /\ calls # <<>>
  /\ calls[Len(calls)].returned = "measurement"
  /\ \E ix \in Cmds :
       /\ cmd[ix].arg = SeeingVars
       /\ cmd[ix].done_task = "result"
       /\ Len(cmd[ix].replies) = Len(SeeingVars) + 2
       /\ cmd[ix].replies[1] = Line(cmd[ix].id, "COMMAND", "OK", NoVal)
       /\ \A k \in 1..Len(SeeingVars) :
            /\ cmd[ix].replies[k + 1].kind = "DATA_INLINE"
            /\ cmd[ix].replies[k + 1].name = SeeingVars[k]
       /\ cmd[ix].replies[Len(SeeingVars) + 2] =
            Line(cmd[ix].id, "COMMAND", "COMPLETE", NoVal)
       /\ DOMAIN cmd[ix].data = SeqToSet(SeeingVars)

\* ------------------------------------------------------------ C28
\* The exception of a failed write reaches the caller of run_command in this
\* step.
WriteRaisedTo(ix) ==
  /\ ix \in 1..Len(waiter')
  /\ waiter'[ix] = "raised"
  /\ ix \in 1..Len(waiter) => waiter[ix] # "raised"

\* C28: when the write of run_command raises, then at the moment the
\* exception reaches the caller the reader and the writer are absent, the
\* reply loop has ended and every registered command, the one whose write
\* failed included, is resolved and removed from running_commands.
C28_WriteFailureTearsDown ==
  [][ \A ix \in 1..Len(waiter') :
        WriteRaisedTo(ix) =>
          /\ ~reader' /\ ~writer'
          /\ TaskDone(reply_loop_task')
          /\ running_commands' = <<>>
          /\ \A j \in 1..Len(cmd') : cmd'[j].done_task # "pending" ]_vars

\* The write of a command issued while disconnect() was between the end of
\* the reply loop and its DISCONNECT has raised to its caller: the streams are
\* released, the reply loop is over, and the command is still registered and
\* pending.
C28_FailedCommandStillRegistered ==
  /\ nconnect = 1
  /\ reply_loop_task = "cancelled"
  /\ ~reader /\ ~writer
  /\ Len(cmd) = 1
  /\ waiter[1] = "raised"
  /\ cmd[1].done_task = "pending"
  /\ running_commands = <<Reg(1, 1)>>

\* ------------------------------------------------------------ C29
\* Two tasks each call connect() once on a connection nothing else uses, to a
\* peer that completes every handshake and is silent afterwards.
InitOverlap ==
  /\ InitBase(FALSE, "OpenTplConnection", NoMock, TRUE, NoCsc)
  /\ overlap \in {OverlapInit(auto_auth) : auto_auth \in BOOLEAN}
  /\ dimm = HealthyDimm

NextOverlap ==
  \/ OverlapConnect
  \/ OverlapConnectResume
  \/ OverlapConnectOpen
  \/ OverlapPeerWrite
  \/ OverlapResume
  \/ OverlapLoopStart
  \/ OverlapLoopCancelled
  \/ OverlapGuardResume

SpecOverlap == InitOverlap /\ [][NextOverlap]_vars

\* The reply loop tasks that were created and have not ended.
ReplyLoopsRunning ==
  {k \in Callers : overlap.pc[Loop(k)] \notin {"none", "done"}}

\* The tasks waiting in a read of stream s for data that has not come.
ReadersOf(s) == {a \in OverlapTasks : overlap.rd[a] = s /\ ~overlap.woken[a]}

\* C29: at most one reply loop task is running, and at most one task is
\* reading from a socket of the connection, at any time.
C29_OneReplyLoopOneReader ==
  /\ Cardinality(ReplyLoopsRunning) <= 1
  /\ \A s \in Streams : Cardinality(ReadersOf(s)) <= 1

\* Both connect() calls have returned, each after starting a reply loop: the
\* loop of the second caller waits in its read and self.reply_loop_task is
\* the loop the first caller started later, which has not run yet.
C29_TwoReplyLoops ==
  /\ overlap.pc["c1"] = "returned" /\ overlap.pc["c2"] = "returned"
  /\ overlap.reply_loop_task = 1
  /\ overlap.pc["l1"] = "created"
  /\ overlap.pc["l2"] = "reading" /\ overlap.waiter[2] = "l2"
  /\ overlap.reader = 2

\* ------------------------------------------------------------ C30
\* An AstelcoDIMM connected to an instrument whose automatic mode is switched
\* on and off while the status loop polls it.
NextStatus ==
  \/ StartUp
  \/ ConnectOpen
  \/ ConnectWelcome
  \/ ConnectAuth
  \/ StatusLoopRepeat
  \/ StatusLoopRead
  \/ ReplyLoopLine
  \/ InstrumentReply
  \/ InstrumentAuto
  \/ InstrumentOff

SpecStatus == InitMeas /\ [][NextStatus]_vars

\* A status poll completes in this step: the GET ended with its result, the
\* values were read without an exception and the loop goes to sleep.
PollCompleted ==
  /\ status_loop_task = "polling"
  /\ status_loop_task' = "sleeping"

\* The text the poll returned for AMEBA.MODE ("" when it returned none).
PolledMode == get_str(cmd[poll.ix], "AMEBA.MODE").val

\* C30: after each completed status poll the status is RUNNING if and only
\* if the AMEBA.MODE value that poll returned is not "0".
C30_RunningIffModeNotZero ==
  [][ PollCompleted => ((status' = "RUNNING") <=> (PolledMode # <<"0">>)) ]_vars

\* The second poll has completed and returned AMEBA.MODE "0", after a first
\* poll that had returned "1", and the status is still RUNNING.
C30_RunningAfterModeZero ==
  /\ poll.n = 2
  /\ status_loop_task = "sleeping"
  /\ Len(cmd) = 2
  /\ get_str(cmd[1], "AMEBA.MODE").val = <<"1">>
  /\ get_str(cmd[2], "AMEBA.MODE").val = <<"0">>
  /\ status = "RUNNING"

\* ------------------------------------------------------------ C31
\* An AstelcoDIMM whose status loop polls an instrument that answers in full,
\* while the line may also carry a stray terminal reply and may be lost.
NextPoll ==
  \/ StartUp
  \/ ConnectOpen
  \/ ConnectWelcome
  \/ ConnectAuth
  \/ StatusLoopRepeat
  \/ StatusLoopRead
  \/ StatusLoopEnd
  \/ CallerGuardResume
  \/ ReplyLoopLine
  \/ ReplyLoopReadFails
  \/ ReplyLoopGuardDisconnect
  \/ ReplyLoopEnd
  \/ InstrumentReply
  \/ PeerSend
  \/ PeerClose

\* The instrument reads every variable it is asked for.
ReliableDimm == [HealthyDimm EXCEPT !.faults = MaxFaults]

InitPoll ==
  /\ InitBase(TRUE, "AstelcoDIMM", NoMock, TRUE, NoCsc)
  /\ overlap = NoOverlap
  /\ dimm = ReliableDimm

SpecPoll == InitPoll /\ [][NextPoll]_vars

\* The last poll sent ended with every polled variable in its data.
PollGood ==
  /\ poll.ix \in 1..Len(cmd)
  /\ cmd[poll.ix].done_task = "result"
  /\ \A k \in 1..Len(StatusVars) : StatusVars[k] \in DOMAIN cmd[poll.ix].data

\* C31: a status poll that ends abnormally (COMMAND FAILED, a polled variable
\* missing from the data, the connection lost or the write failing) leaves
\* the status ERROR and the loop not polling again: a poll is sent only as
\* the first one or after a poll that ended well.
C31_PollFailureIsFatal ==
  [][ /\ (status_loop_task = "polling" /\ status_loop_task' # "polling"
          /\ ~PollGood)
        => (status' = "ERROR" /\ status_loop_task' # "sleeping")
      /\ (poll.n' # poll.n /\ status_loop_task' # "polling")
        => status' = "ERROR"
      /\ (poll.n' # poll.n)
        => (poll.n = 0 \/ (PollGood /\ status_loop_task = "sleeping"))
      /\ (status_loop_task' = "sleeping" /\ status_loop_task # "sleeping")
        => (PollGood \/ poll.n = 0) ]_vars

\* The first poll was answered COMMAND FAILED: the status is ERROR and the
\* loop has ended, with the connection still up and a poll to spare.
C31_Witness ==
  /\ poll.n = 1
  /\ poll.n < MaxRepeat
  /\ cmd[1].done_task = "CommandError"
  /\ status = "ERROR"
  /\ status_loop_task = "finished"
  /\ connected
  /\ transport = "up"
  /\ reply_loop_task = "reading"

\* The first poll ended well, and the second found SCOPE.RA missing from its
\* data: the status is ERROR and the loop has ended.
C31_WitnessMissing ==
  /\ poll.n = 2
  /\ cmd[1].done_task = "result"
  /\ cmd[2].done_task = "result"
  /\ "SCOPE.RA" \notin DOMAIN cmd[2].data
  /\ status = "ERROR"
  /\ status_loop_task = "finished"

\* ------------------------------------------------------------ C32
\* status_loop() and ameba_loop() side by side on one connection, against an
\* instrument that answers in full and may be in automatic mode; the line
\* may carry a stray terminal reply.
NextLoops ==
  \/ StartUp
  \/ ConnectOpen
  \/ ConnectWelcome
  \/ ConnectAuth
  \/ StatusLoopRepeat
  \/ StatusLoopRead
  \/ AmebaLoopPoll
  \/ AmebaLoopRead
  \/ ReplyLoopLine
  \/ InstrumentReply
  \/ PeerSend

\* The instrument is in automatic mode and reads every variable.
InitLoops ==
  /\ InitBase(TRUE, "AstelcoDIMM", NoMock, TRUE, NoCsc)
  /\ overlap = NoOverlap
  /\ dimm = [ReliableDimm EXCEPT !.mode = "1"]

SpecLoops == InitLoops /\ [][NextLoops]_vars

\* C32: a status of ERROR stays ERROR until a lifecycle call (connect() or
\* stop()) changes it: no background loop overwrites it.
C32_ErrorIsSticky ==
  [][ (status = "ERROR" /\ life = "idle" /\ life' = "idle")
        => status' = "ERROR" ]_vars

\* ameba_loop() ended on COMMAND FAILED, which set the status ERROR, and a
\* later pass of status_loop() has made it RUNNING.
C32_ErrorOverwritten ==
  /\ poll.ameba = "finished"
  /\ cmd[poll.aix].done_task = "CommandError"
  /\ poll.aix < poll.ix
  /\ status_loop_task = "sleeping"
  /\ PollGood
  /\ status = "RUNNING"
  /\ life = "idle"

\* ------------------------------------------------------------ C33
\* Precipitation callbacks on an AstelcoDIMM that connected once, against an
\* instrument that answers every SET and a line that may be lost.
NextRain ==
  \/ StartUp
  \/ ConnectOpen
  \/ ConnectWelcome
  \/ ConnectAuth
  \/ PrecipitationCallback
  \/ CallerGuardResume
  \/ ReplyLoopLine
  \/ ReplyLoopReadFails
  \/ ReplyLoopGuardDisconnect
  \/ ReplyLoopEnd
  \/ StatusLoopEnd
  \/ InstrumentReply
  \/ PeerClose

SpecRain == InitPoll /\ [][NextRain]_vars

\* The SET WEATHER.RAIN lines written so far, in wire order.
RainLines == SelectSeq(sent, LAMBDA l : l.verb = "SET" /\ l.arg[1][1] = "WEATHER.RAIN")

\* C33 as stated: after any sequence of precipitation callbacks there is one
\* SET WEATHER.RAIN line per callback and the last one carries the value
\* for the flags as they stand.
C33_OneLinePerCallback ==
  /\ Len(RainLines) = weather.callbacks
  /\ weather.callbacks > 0 =>
       RainLines[Len(RainLines)].arg =
         WeatherRain(rain_value(weather.is_raining, weather.is_snowing))

\* A precipitation callback runs in this step.
CallbackRuns == weather'.callbacks = weather.callbacks + 1

\* C33 for a connected controller: a callback called while the controller is
\* connected writes one SET WEATHER.RAIN line, after every line written
\* before it (and before the DISCONNECT of a failed write), with the value for the flags it has just set (PRECIPITATION iff
\* raining or snowing), whether or not earlier callbacks are still waiting
\* for their replies; a callback called while it is not connected writes
\* nothing.
C33_ConnectedCallbackWritesInOrder ==
  [][ CallbackRuns =>
        IF connected
        THEN /\ Len(sent') > Len(sent)
             /\ SubSeq(sent', 1, Len(sent)) = sent
             /\ sent'[Len(sent) + 1].verb = "SET"
             /\ sent'[Len(sent) + 1].id = index_gen'
             /\ sent'[Len(sent) + 1].arg =
                  WeatherRain(IF weather'.is_raining \/ weather'.is_snowing
                              THEN "1" ELSE "0")
             /\ RainLines' = Append(RainLines, sent'[Len(sent) + 1])
        ELSE sent' = sent ]_vars

\* Two callbacks overlapped: the first (rain) is still waiting for its reply
\* when the second (dry) has written its line; the lines are on the wire in
\* call order and the last one is DRY, as the flags stand.
C33_Witness ==
  /\ weather = [is_raining |-> FALSE, is_snowing |-> FALSE, callbacks |-> 2]
  /\ Len(cmd) = 2
  /\ waiter = <<"waiting", "waiting">>
  /\ cmd[1].done_task = "pending"
  /\ cmd[2].done_task = "pending"
  /\ Len(RainLines) = 2
  /\ RainLines[1].arg = WeatherRain("1")
  /\ RainLines[2].arg = WeatherRain("0")
  /\ RainLines[1].id < RainLines[2].id

\* A callback was called after the connection was lost: the flags say rain
\* and no line says so.
C33_CallbackWhileDisconnected ==
  /\ weather.callbacks = 2
  /\ weather.is_raining
  /\ ~connected
  /\ Len(RainLines) = 1
  /\ RainLines[1].arg = WeatherRain("0")

\* ------------------------------------------------------------ C34
\* The fields auto_loop() assigns before its first sleep.
StartFields ==
  {"DOME.POWER_STATE", "SCOPE.POWER_STATE", "DOME.POSITION", "AMEBA.STATE",
   "SCOPE.MOTION_STATE", "SCOPE.RA", "SCOPE.DEC", "SCOPE.AZ", "SCOPE.ALT"}

\* The scope and the dome are parked.
ScopeAndDomeParked ==
  /\ mock.tree["SCOPE.MOTION_STATE"] = -1
  /\ mock.tree["SCOPE.POWER_STATE"] = 0
  /\ mock.tree["DOME.POWER_STATE"] = 0
  /\ \A v \in {"SCOPE.RA", "SCOPE.DEC", "SCOPE.AZ", "SCOPE.ALT"} :
       mock.tree[v] = Tree0[v]
  /\ mock.tree["DOME.POSITION"] = 0

\* C34: while the automatic loop of the mock is not running (never started,
\* or ended), the scope and the dome are parked and every field the loop
\* assigns when it starts has the value it had before the loop started.
C34_ParkedWhenNotRunning ==
  (mock.on /\ mock.auto_loop_task = "done")
    => /\ ScopeAndDomeParked
       /\ \A v \in StartFields : mock.tree[v] = Tree0[v]

\* The loop ran and was cancelled: the scope and the dome are parked and
\* AMEBA.STATE still says SLEWING.
C34_StateNotReset ==
  /\ mock.on
  /\ mock.auto_loop_task = "done"
  /\ ScopeAndDomeParked
  /\ mock.tree["AMEBA.STATE"] = 2
  /\ ~can_open(mock.tree)

\* ------------------------------------------------------------ C35
\* The mock server and a stream client that sends SETs of several pairs.
NextSet ==
  \/ RawOpen
  \/ RawWriteSet
  \/ RawClose
  \/ MockAccept
  \/ MockCommand
  \/ MockConnectionLost

SpecSet == InitMock /\ [][NextSet]_vars

\* The mock, authenticated, reads a numbered SET on a stream the client holds.
SetServed ==
  /\ SetHandledNow
  /\ Dispatched(sent[served + 1])

\* The answer to the k-th pair of the SET: the kind of its DATA line, when
\* there is one between COMMAND OK and the terminal line.
Answer(k) == IF k + 1 < Len(Written) THEN Written[k + 1].kind ELSE "none"

\* The value a pair holds for the attribute c.
ValueRead(c, text) ==
  IF c \in StrFields THEN StrText[text]
  ELSE IF c \in FloatFields THEN float(Val(FALSE, <<text>>)).val.v
  ELSE int(Val(FALSE, <<text>>)).val

\* The tree after the pairs answered DATA OK, from pair k on, were applied in
\* order and no other pair changed anything.
RECURSIVE Outcome(_, _, _)
Outcome(tree, pairs, k) ==
  IF k > Len(pairs) THEN tree
  ELSE IF Answer(k) = "DATA_OK"
  THEN LET c == Cell(Fold(pairs[k][1]))
       IN Outcome([tree EXCEPT ![c] = ValueRead(c, pairs[k][2])], pairs, k + 1)
  ELSE Outcome(tree, pairs, k + 1)

\* C35: in a SET, a pair answered DATA ERROR changes no variable (the tree
\* afterwards is the one the pairs answered DATA OK give, applied in order),
\* and every pair after it is still handled on its own: it gets its answer.
C35_DataErrorIsLocal ==
  [][ SetServed =>
        LET pairs == sent[served + 1].arg
        IN /\ mock'.tree = Outcome(mock.tree, pairs, 1)
           /\ \A k \in 1..Len(pairs) :
                Answer(k) = "DATA_ERROR" =>
                  \A j \in (k + 1)..Len(pairs) :
                    Answer(j) \in {"DATA_OK", "DATA_ERROR"} ]_vars

\* The same for SETs whose parts are all name=value.
C35_WellFormedOnly ==
  [][ (SetServed /\ \A k \in 1..Len(sent[served + 1].arg) :
                      Len(sent[served + 1].arg[k]) = 2)
        => LET pairs == sent[served + 1].arg
           IN /\ mock'.tree = Outcome(mock.tree, pairs, 1)
              /\ \A k \in 1..Len(pairs) :
                   Answer(k) \in {"DATA_OK", "DATA_ERROR"} ]_vars

\* The mock has answered SET AMEBA.STATE=1;SKY.TEMP;AMEBA.MODE=0: DATA ERROR
\* for the read-only AMEBA.STATE, then COMMAND FAILED; AMEBA.MODE=0, a pair
\* after the one refused, was not applied.
C35_LaterPairDropped ==
  /\ mock.on /\ ~mock.require_authentication
  /\ transport = "up"
  /\ served = 1
  /\ sent[1] = ClientLine(1, "SET", << <<"AMEBA.STATE", "1">>, <<"SKY.TEMP">>,
                                     <<"AMEBA.MODE", "0">> >>)
  /\ Len(inbox) = 4
  /\ inbox[2] = Line(1, "COMMAND", "OK", NoVal)
  /\ inbox[3] = Line(1, "DATA_ERROR", "AMEBA.STATE", ErrorValue)
  /\ inbox[4] = Line(1, "COMMAND", "FAILED", NoVal)
  /\ mock.tree["AMEBA.MODE"] = 1

\* ------------------------------------------------------------ C36
\* A DATA INLINE value as the reply loop holds it: the characters the pattern
\* captured as `value`.
Quote == "\""
Space == " "
Tab == "\t"
Whitespace == {Space, Tab}

\* The characters of the words the handler compares with.
Spelling ==
  [w \in BadDataReplies \cup {"NULL"} |->
     CASE w = "BUSY" -> <<"B", "U", "S", "Y">>
       [] w = "DENIED" -> <<"D", "E", "N", "I", "E", "D">>
       [] w = "DIMENSION" -> <<"D", "I", "M", "E", "N", "S", "I", "O", "N">>
       [] w = "FAILED" -> <<"F", "A", "I", "L", "E", "D">>
       [] w = "INVALID" -> <<"I", "N", "V", "A", "L", "I", "D">>
       [] w = "LOCKEDBY" -> <<"L", "O", "C", "K", "E", "D", "B", "Y">>
       [] w = "TYPE" -> <<"T", "Y", "P", "E">>
       [] w = "UNKNOWN" -> <<"U", "N", "K", "N", "O", "W", "N">>
       [] w = "NULL" -> <<"N", "U", "L", "L">>]

\* str.split()[0]: skip the leading whitespace, then take the characters up to
\* the next whitespace.
RECURSIVE SkipSpace(_)
SkipSpace(s) ==
  IF s # <<>> /\ Head(s) \in Whitespace THEN SkipSpace(Tail(s)) ELSE s

RECURSIVE TakeWord(_)
TakeWord(s) ==
  IF s = <<>> \/ Head(s) \in Whitespace THEN <<>>
  ELSE <<Head(s)>> \o TakeWord(Tail(s))

first_word(value) == TakeWord(SkipSpace(value))

\* handle_data_inline on the characters of the value. value.split()[0] raises
\* IndexError when the value holds nothing but whitespace.
handle_data_inline_text(c, name, value) ==
  IF first_word(value) = <<>>
  THEN Handled(c, TRUE, FALSE)
  ELSE IF first_word(value) \in {Spelling[w] : w \in BadDataReplies}
  THEN Handled(SetData(c, name, Entry(FALSE, FALSE, value)), FALSE, TRUE)
  ELSE IF first_word(value) = Spelling["NULL"]
  THEN Handled(SetData(c, name, Entry(TRUE, TRUE, <<>>)), FALSE, FALSE)
  ELSE IF value[1] = Quote
  THEN Handled(SetData(c, name, Entry(TRUE, FALSE, SubSeq(value, 2, Len(value) - 1))),
               FALSE, FALSE)
  ELSE Handled(SetData(c, name, Entry(TRUE, FALSE, value)), FALSE, FALSE)

\* A line "<id> DATA INLINE <name>=<value>" as the DATA INLINE pattern splits it.
InlineLine(i, n, v) == [id |-> i, kind |-> "DATA_INLINE", name |-> n, text |-> v]

\* Values a peer may send: a word, bare or after a quote or a blank, and what
\* follows it. The line was stripped, so a value never ends in whitespace, and
\* the pattern wants one character at least.
InlineWords ==
  {Spelling[w] : w \in DOMAIN Spelling}
  \cup {<<"N", "U", "L", "L">>, <<"n", "u", "l", "l">>, <<"B", "u", "s", "y">>, <<"B", "U", "S", "Y", "X">>, <<"1", "5">>, <<"a", "b">>}

InlineValues ==
  {pre \o w \o post :
     pre \in {<<>>, <<Quote>>, <<Space>>},
     w \in InlineWords,
     post \in {<<>>, <<Quote>>, <<Space, "1", "5">>, <<Tab, "x", Quote>>, <<"x">>}}
  \cup {<<Quote>>, <<Quote, Quote>>}

\* A connected client whose reply loop is reading, with one command registered
\* and one DATA INLINE line for it on the stream.
InitInline ==
  /\ ws_remote = TRUE
  /\ csc = NoCsc
  /\ overlap = NoOverlap
  /\ dimm = HealthyDimm
  /\ reader = TRUE
  /\ writer = TRUE
  /\ transport = "up"
  /\ \E v \in InlineValues : inbox = <<InlineLine(1, "X", v)>>
  /\ sent = <<>>
  /\ wire = FALSE
  /\ klass = "OpenTplConnection"
  /\ read_level = 1
  /\ write_level = 1
  /\ reply = NoReply
  /\ status_loop_task = "none"
  /\ poll = NoPoll
  /\ stop = NotStopped
  /\ mock = NoMock
  /\ boot = [k |-> 0, ix |-> 0]
  /\ index_gen = 1
  /\ cmd = <<NewCommand(1, "GET", <<"X">>)>>
  /\ running_commands = <<Reg(1, 1)>>
  /\ reply_loop_task = "reading"
  /\ waiter = <<"caller">>
  /\ life = "idle"
  /\ status = "NOTSET"
  /\ log = {}
  /\ nconnect = 1
  /\ nlines = 1
  /\ lost = {}
  /\ served = 0
  /\ meas = MeasIdle
  /\ calls = <<>>
  /\ weather = NoWeather

\* The reply loop reads the line, finds its command and calls the handler; an
\* exception of the handler is logged, and the command stays registered while
\* its done_task is pending.
ReplyLoopInline ==
  /\ reply_loop_task = "reading"
  /\ connected
  /\ inbox # <<>>
  /\ LET line == Head(inbox)
         ix == Lookup(running_commands, line)
     IN /\ ix # 0
        /\ LET c == [cmd[ix] EXCEPT !.replies = Append(@, line)]
               h == handle_data_inline_text(c, line.name, line.text)
           IN /\ cmd' = [cmd EXCEPT ![ix] = h.c]
              /\ running_commands' =
                   IF h.c.done_task # "pending"
                   THEN RemoveId(running_commands, line.id)
                   ELSE running_commands
              /\ log' = log \cup (IF h.exc \/ h.warn THEN {ix} ELSE {})
  /\ inbox' = Tail(inbox)
  /\ UNCHANGED <<reader, writer, transport, sent, index_gen, reply_loop_task,
                 waiter, life, status, nconnect, nlines, lost, served, status_loop_task,
                 other>>

NextInline == ReplyLoopInline

SpecInline == InitInline /\ [][NextInline]_vars

\* The first whitespace-delimited token of a value.
Token(value) ==
  LET i == CHOOSE k \in 1..Len(value) :
             /\ value[k] \notin Whitespace
             /\ \A j \in 1..(k - 1) : value[j] \in Whitespace
      e == CHOOSE k \in i..Len(value) :
             /\ \A j \in i..k : value[j] \notin Whitespace
             /\ k = Len(value) \/ value[k + 1] \in Whitespace
  IN SubSeq(value, i, e)

\* A value without the double quotes that surround it.
Unquoted(value) ==
  LET t == Tail(value)
  IN IF t # <<>> /\ t[Len(t)] = Quote THEN SubSeq(t, 1, Len(t) - 1) ELSE t

\* C36: decoding "<id> DATA INLINE <name>=<value>" for a registered command
\* sets data[name] to (False, value) iff the first token of the value is one
\* of BadDataReplies, else to (True, None) if the token is NULL, else to
\* (True, value without its surrounding double quotes if it starts with a
\* quote, value as it is otherwise); the command's done_task is left alone.
C36_InlineDecoding ==
  [][ ReplyLoopInline =>
        LET value == Head(inbox).text
            entry == cmd'[1].data["X"]
        IN /\ "X" \in DOMAIN cmd'[1].data
           /\ entry.isok = FALSE <=> Token(value) \in {Spelling[w] : w \in BadDataReplies}
           /\ ~entry.isok => entry = Entry(FALSE, FALSE, value)
           /\ (entry.isok /\ Token(value) = Spelling["NULL"]) => entry = Entry(TRUE, TRUE, <<>>)
           /\ (entry.isok /\ Token(value) # Spelling["NULL"]) =>
                entry = Entry(TRUE, FALSE,
                              IF value[1] = Quote THEN Unquoted(value) ELSE value)
           /\ cmd'[1].done_task = cmd[1].done_task
           /\ running_commands' = running_commands ]_vars

\* The same, for values that end with a double quote when they start with one.
C36_ClosedQuotes ==
  [][ (ReplyLoopInline /\ LET value == Head(inbox).text
                          IN value[1] = Quote =>
                               (Len(value) > 1 /\ value[Len(value)] = Quote))
        => LET value == Head(inbox).text
               entry == cmd'[1].data["X"]
           IN entry = IF Token(value) \in {Spelling[w] : w \in BadDataReplies}
                      THEN Entry(FALSE, FALSE, value)
                      ELSE IF Token(value) = Spelling["NULL"]
                      THEN Entry(TRUE, TRUE, <<>>)
                      ELSE IF value[1] = Quote
                      THEN Entry(TRUE, FALSE, Unquoted(value))
                      ELSE Entry(TRUE, FALSE, value) ]_vars

\* The value "ab (a quote, then a, then b) was decoded: the entry holds the
\* value a, without the b.
C36_LastCharacterLost ==
  /\ inbox = <<>>
  /\ Len(cmd) = 1
  /\ cmd[1].replies = <<InlineLine(1, "X", <<Quote, "a", "b">>)>>
  /\ cmd[1].data = [n \in {"X"} |-> Entry(TRUE, FALSE, <<"a">>)]
  /\ cmd[1].done_task = "pending"

\* ------------------------------------------------------------ C37
\* C37: whenever the connection reports connected and no connect(),
\* disconnect() or stop() call is in progress, its reply loop task is running
\* (it has neither ended nor been cancelled).
C37_ConnectedHasReplyLoop ==
  (connected /\ life = "idle") => ~TaskDone(reply_loop_task)

\* connect() was called on a connected connection: it cancelled the reply
\* loop, awaited it, logged "Already connected" and returned. The streams are
\* up and the levels are set, and no reply loop reads the stream.
C37_LoopCancelledByConnect ==
  /\ connected
  /\ transport = "up"
  /\ life = "idle"
  /\ nconnect = 2
  /\ read_level # None
  /\ reply_loop_task = "cancelled"

\* ------------------------------------------------------------ C38
\* The mock reads a numbered command line on a session whose stream is up.
NumberedRead ==
  /\ mock.on
  /\ mock.session = "open"
  /\ transport = "up"
  /\ served' = served + 1
  /\ sent[served + 1].id # 0

\* C38, the replies: handling a numbered line, whatever it holds, the mock
\* writes lines with the id of that line only, exactly one of them terminal,
\* and that one last; no other step writes a line with a command id.
C38_OneTerminalReply ==
  [][ /\ NumberedRead =>
           /\ Written # <<>>
           /\ \A k \in 1..Len(Written) : Written[k].id = sent[served + 1].id
           /\ Cardinality({k \in 1..Len(Written) : TerminalLine(Written[k])}) = 1
           /\ TerminalLine(Written[Len(Written)])
      /\ ~(served' = served + 1 /\ sent[served + 1].id # 0) =>
           \A k \in 1..Len(Written) : Written[k].id = 0 ]_vars

\* Every task that can run does run: the event loop of the client (connect,
\* start, stop, the reply and status loops) and that of the mock (its command
\* loop, its automatic loop) schedule each ready step.
FairSpecReplies ==
  /\ SpecMockStop
  /\ WF_vars(ConnectOpen) /\ WF_vars(ConnectWelcome) /\ WF_vars(ConnectAuth)
  /\ WF_vars(StartStep) /\ WF_vars(StopSetDone) /\ WF_vars(DisconnectResume)
  /\ WF_vars(StatusLoopRead) /\ WF_vars(StatusLoopEnd)
  /\ WF_vars(ReplyLoopLine) /\ WF_vars(ReplyLoopEnd)
  /\ WF_vars(MockAccept) /\ WF_vars(MockCommand) /\ WF_vars(AutoLoopEnd)

\* Command ix was created and its done_task is pending.
Unresolved(ix) == ix \in Cmds /\ cmd[ix].done_task = "pending"

\* The commands a start(), the polls and a stop() create.
CommandSlots == 1..(Len(StartupCommands) + MaxPolls + 1)

\* C38: the mock answers every numbered line with one terminal reply, written
\* last for its id, and so every command the client has sent to the mock is
\* eventually resolved.
C38_CommandsResolved ==
  /\ C38_OneTerminalReply
  /\ \A ix \in CommandSlots : [](Unresolved(ix) => <>~Unresolved(ix))

\* The same for the commands created while the reply loop is reading.
C38_ResolvedWhileReading ==
  \A ix \in CommandSlots :
    []((Unresolved(ix) /\ reply_loop_task = "reading") => <>~Unresolved(ix))

\* connect() gave up during the handshake and left the streams set, with no
\* reply loop; stop() sent its SET, the mock read it and wrote the terminal
\* reply, which nothing reads: the command stays pending.
C38_TerminalReplyUnread ==
  /\ mock.on
  /\ mock.session = "open"
  /\ connected
  /\ transport = "up"
  /\ TaskDone(reply_loop_task)
  /\ stop.ix # 0
  /\ Unresolved(stop.ix)
  /\ served = Len(sent)
  /\ \E k \in 1..Len(inbox) :
       TerminalLine(inbox[k]) /\ inbox[k].id = cmd[stop.ix].id

\* ------------------------------------------------------------ C39
\* The client of the current session got "AUTH OK": the line is among those
\* the mock has written since this client connected.
SessionAuthenticated ==
  \E k \in 1..Len(inbox) : inbox[k].kind = "AUTH" /\ inbox[k].name = "OK"

\* C39: on a mock that requires authentication, a GET or SET of a client that
\* has not itself been answered AUTH OK is refused with COMMAND ERROR
\* UNAUTHENTICATED and COMMAND FAILED, whatever earlier clients did.
C39_AuthPerSession ==
  [][ (/\ mock.on
       /\ mock.require_authentication
       /\ mock.session = "open"
       /\ transport = "up"
       /\ ~SessionAuthenticated
       /\ served' = served + 1
       /\ sent[served + 1].verb \in {"GET", "SET"}
       /\ Dispatched(sent[served + 1]))
      => Written = write_not_authenticated(sent[served + 1].id) ]_vars

\* A second client connected after the first had sent AUTH PLAIN and then
\* DISCONNECT: it sent no AUTH, and its GET or SET was answered COMMAND OK.
C39_SecondClientServed ==
  /\ mock.on
  /\ mock.require_authentication
  /\ nconnect = 2
  /\ transport = "up"
  /\ Len(sent) = 3
  /\ sent[1] = AuthLine
  /\ sent[2] = DisconnectLine
  /\ sent[3].verb \in {"GET", "SET"}
  /\ served = Len(sent)
  /\ Len(inbox) >= 2
  /\ inbox[1] = Welcome
  /\ ~SessionAuthenticated
  /\ inbox[2] = Line(sent[served].id, "COMMAND", "OK", NoVal)

\* ------------------------------------------------------------ C40
\* connect() waits for the reply to AUTH, and the mock has read every line the
\* client wrote.
AwaitingAuthReply ==
  /\ mock.on
  /\ mock.session = "open"
  /\ transport = "up"
  /\ life = "connect_auth"
  /\ served = Len(sent)

\* C40: in both authentication modes the handshake with the mock completes.
\* The client has sent AUTH PLAIN iff auto_auth is false; once the mock has
\* read what the client wrote, an "AUTH OK r w" line is there for connect() to
\* read; and reading it records the levels and starts the reply loop.
C40_HandshakeCompletes ==
  /\ [](AwaitingAuthReply =>
          /\ (AuthLine \in SeqToSet(sent)) <=> ~config_auto_auth
          /\ inbox # <<>>
          /\ Authorized(search(Head(inbox))))
  /\ [][ (AwaitingAuthReply /\ inbox # <<>> /\ inbox' = Tail(inbox)) =>
           /\ read_level' = search(Head(inbox)).read_level
           /\ write_level' = search(Head(inbox)).write_level
           /\ reply_loop_task' = "reading" ]_vars

\* The same when the mock requires authentication (auto_auth false).
C40_CompletesWithAuth ==
  /\ []((AwaitingAuthReply /\ mock.require_authentication) =>
          /\ AuthLine \in SeqToSet(sent)
          /\ inbox # <<>>
          /\ Authorized(search(Head(inbox))))
  /\ [][ (AwaitingAuthReply /\ inbox # <<>> /\ inbox' = Tail(inbox)) =>
           /\ read_level' = 20
           /\ write_level' = 20
           /\ reply_loop_task' = "reading" ]_vars

\* auto_auth is true: connect() has read the welcome line and written
\* nothing, the mock has written nothing more and has nothing to read, and
\* connect() waits for an AUTH reply that does not come.
C40_NoAuthReply ==
  /\ AwaitingAuthReply
  /\ config_auto_auth
  /\ mock.authenticated
  /\ sent = <<>>
  /\ inbox = <<>>
  /\ reply_loop_task = "none"
  /\ read_level = None

====
